---- MODULE Spec2Model ----
(***************************************************************************)
(* Attachment service of SME-GIPE (anexos): the MinIO storage adapter      *)
(* (anexos/storage.py), the quota functions of the Anexo model             *)
(* (anexos/models/anexo.py), the write handlers of AnexoViewSet /          *)
(* AnexoSerializer with the category policy, and the remote JWT            *)
(* authentication (anexos/auth.py) with its two caches and a clock.        *)
(*                                                                         *)
(* Object names are sequences of one-character strings, so that            *)
(* os.path.split / os.path.splitext / os.path.join and the f-string of     *)
(* get_available_name are computed and not assumed.                        *)
(***************************************************************************)
EXTENDS Integers, Sequences, FiniteSets, TLC

VARIABLES
    anexos,   \* the Anexo table: a sequence of rows
    bucket,   \* the MinIO bucket: object name -> stored byte length
    resp,     \* what the last call returned / raised
    cache,    \* django.core.cache: key -> [value, created, expires]
    now,      \* time.time(), in seconds
    reqs      \* the requests in progress: worker -> its position and locals

vars == <<anexos, bucket, resp, cache, now, reqs>>

\* the state of the authentication: untouched by the attachment operations
authVars == <<cache, now>>

\* what a request handled from its first to its last line in one step leaves
\* alone: the authentication and the requests of the other workers
otherVars == <<authVars, reqs>>

(***************************************************************************)
(* Bounds of the model                                                     *)
(***************************************************************************)
MaxObjects == 2      \* objects the bucket may hold
MaxAnexos == 2       \* rows the Anexo table may hold
MaxStored == 2       \* objects the bucket may hold while the API runs

(***************************************************************************)
(* Python string helpers                                                   *)
(***************************************************************************)
None == "None"

\* str.rfind, 1-based: index of the last occurrence of c in s, 0 when absent
RFind(s, c) ==
    IF \E i \in 1..Len(s) : s[i] = c
    THEN CHOOSE i \in 1..Len(s) : s[i] = c /\ \A j \in (i+1)..Len(s) : s[j] # c
    ELSE 0

\* str.rstrip('/')
RECURSIVE RStripSlash(_)
RStripSlash(s) ==
    IF s # <<>> /\ s[Len(s)] = "/" THEN RStripSlash(SubSeq(s, 1, Len(s) - 1)) ELSE s

\* posixpath.split
os_path_split(p) ==
    LET i == RFind(p, "/")
        head == SubSeq(p, 1, i)
        tail == SubSeq(p, i + 1, Len(p))
    IN  [head |-> IF head # <<>> /\ (\E j \in 1..Len(head) : head[j] # "/")
                  THEN RStripSlash(head) ELSE head,
         tail |-> tail]

\* posixpath.splitext (genericpath._splitext)
os_path_splitext(p) ==
    LET sepIndex == RFind(p, "/")
        dotIndex == RFind(p, ".")
    IN  IF dotIndex > sepIndex
           /\ \E j \in (sepIndex + 1)..(dotIndex - 1) : p[j] # "."
        THEN [root |-> SubSeq(p, 1, dotIndex - 1), ext |-> SubSeq(p, dotIndex, Len(p))]
        ELSE [root |-> p, ext |-> <<>>]

\* posixpath.join of two components
os_path_join(a, b) ==
    IF b # <<>> /\ b[1] = "/" THEN b
    ELSE IF a = <<>> \/ a[Len(a)] = "/" THEN a \o b
    ELSE a \o <<"/">> \o b

DigitChar == <<"0", "1", "2", "3", "4", "5", "6", "7", "8", "9">>

\* str(count) for a non-negative count
RECURSIVE IntToStr(_)
IntToStr(n) ==
    IF n < 10 THEN <<DigitChar[n + 1]>>
    ELSE IntToStr(n \div 10) \o <<DigitChar[(n % 10) + 1]>>

(***************************************************************************)
(* The MinIO backend as seen through the minio client                      *)
(***************************************************************************)
\* A call of the client either is answered by the backend, or raises an
\* S3Error that is not "not found" (auth, throttling, outage answered by the
\* server), or raises an exception that is not an S3Error (transport).
Faults == {"none", "AccessDenied", "Transport"}
S3ErrorCodes == {"NoSuchKey", "AccessDenied"}

\* client.stat_object: "ok" when it returns a stat, else what it raises
stat_object(b, name, fault) ==
    IF fault # "none" THEN fault
    ELSE IF name \in DOMAIN b THEN "ok" ELSE "NoSuchKey"

\* MinioStorage.exists: what it returns, or raised when the exception escapes
exists(out) ==
    IF out = "ok" THEN [raised |-> FALSE, ret |-> TRUE]
    ELSE IF out \in S3ErrorCodes THEN [raised |-> FALSE, ret |-> FALSE]
    ELSE [raised |-> TRUE, ret |-> FALSE]

\* MinioStorage.size
size(b, name, out) ==
    IF out = "ok" THEN [raised |-> FALSE, ret |-> b[name]]
    ELSE IF out \in S3ErrorCodes THEN [raised |-> FALSE, ret |-> 0]
    ELSE [raised |-> TRUE, ret |-> 0]

\* The name built at line 135 of storage.py
SuffixedName_wrong(dir_name, file_root, file_ext, name, count) ==
    LET cur == os_path_splitext(os_path_split(name).tail)
    IN  os_path_join(dir_name, cur.root \o <<"_">> \o IntToStr(count) \o file_ext)

SuffixedName(dir_name, file_root, file_ext, name, count) ==
    os_path_join(dir_name, file_root \o <<"_">> \o IntToStr(count) \o file_ext)

\* The while loop of get_available_name.  i is the number of the exists call,
\* F gives the fault injected into each call, log the calls made so far.
RECURSIVE ProbeLoop(_, _, _, _, _, _, _, _, _)
ProbeLoop(b, dir_name, file_root, file_ext, name, count, i, F, log) ==
    LET out == stat_object(b, name, F[i])
        ans == exists(out)
        log2 == Append(log, [name |-> name, out |-> out, ans |-> ans.ret])
    IN  IF ans.raised THEN [raised |-> TRUE, name |-> None, probes |-> log2]
        ELSE IF ans.ret
        THEN ProbeLoop(b, dir_name, file_root, file_ext,
                       SuffixedName(dir_name, file_root, file_ext, name, count),
                       count + 1, i + 1, F, log2)
        ELSE [raised |-> FALSE, name |-> name, probes |-> log2]

\* MinioStorage.get_available_name
get_available_name(b, name, F) ==
    LET out == stat_object(b, name, F[1])
        ans == exists(out)
        log == <<[name |-> name, out |-> out, ans |-> ans.ret]>>
        sp == os_path_split(name)
        se == os_path_splitext(sp.tail)
    IN  IF ans.raised THEN [raised |-> TRUE, name |-> None, probes |-> log]
        ELSE IF ans.ret
        THEN ProbeLoop(b, sp.head, se.root, se.ext, name, 1, 2, F, log)
        ELSE [raised |-> FALSE, name |-> name, probes |-> log]

\* client.put_object
put_object(b, name, file_size) == [k \in DOMAIN b \cup {name} |->
                                      IF k = name THEN file_size ELSE b[k]]

\* client.remove_object
remove_object(b, name) == [k \in DOMAIN b \ {name} |-> b[k]]

\* Storage.save = get_available_name, then MinioStorage._save.
\* raised: "none", "IOError" (the S3Error of put_object, re-raised at line 73)
\* or "Exception" (an exception that is not an S3Error, which no handler of
\* _save catches).  put: what put_object did, "notcalled" when the name
\* resolution raised before it.
StorageSave(b, name, file_size, F, putFault) ==
    LET gan == get_available_name(b, name, F)
    IN  IF gan.raised
        THEN [raised |-> "Exception", key |-> None, probes |-> gan.probes,
              overwrote |-> FALSE, put |-> "notcalled", bucket |-> b]
        ELSE IF putFault = "AccessDenied"
        THEN [raised |-> "IOError", key |-> None, probes |-> gan.probes,
              overwrote |-> FALSE, put |-> putFault, bucket |-> b]
        ELSE IF putFault = "Transport"
        THEN [raised |-> "Exception", key |-> None, probes |-> gan.probes,
              overwrote |-> FALSE, put |-> putFault, bucket |-> b]
        ELSE [raised |-> "none", key |-> gan.name, probes |-> gan.probes,
              overwrote |-> gan.name \in DOMAIN b, put |-> "none",
              bucket |-> put_object(b, gan.name, file_size)]

\* MinioStorage.delete.  out is what client.remove_object does: "ok", or the
\* code of the S3Error it raises ("NoSuchKey" when the backend reports the
\* object as not found), or "Transport" for an exception that is not an
\* S3Error.  Every S3Error is printed and swallowed.
StorageDelete(b, name, out) ==
    IF out = "Transport" THEN [raised |-> TRUE, bucket |-> b]
    ELSE IF out \in S3ErrorCodes THEN [raised |-> FALSE, bucket |-> b]
    ELSE [raised |-> FALSE, bucket |-> remove_object(b, name)]

\* what remove_object can do for the object name
RemoveOutcomes(b, name) ==
    {"ok", "AccessDenied", "Transport"} \cup
    (IF name \in DOMAIN b THEN {} ELSE {"NoSuchKey"})

(***************************************************************************)
(* Inputs of the storage adapter                                           *)
(***************************************************************************)
\* "d/f.p": directory, base name and extension; "d/f_1.p": a name that is
\* itself a probe of the first; "f": no directory, no extension
CandidateNames ==
    { <<"d", "/", "f", ".", "p">>,
      <<"d", "/", "f", "_", "1", ".", "p">>,
      <<"f">> }

ContentSizes == {0, 7}

FaultPositions == 1..(MaxObjects + 2)

\* at most one call of a probe sequence faults: every fault ends the sequence
FaultPlans ==
    { [i \in FaultPositions |-> "none"] } \cup
    { [i \in FaultPositions |-> IF i = at THEN kind ELSE "none"] :
        at \in FaultPositions, kind \in Faults \ {"none"} }

NoCall == [op |-> "none"]

Init ==
    /\ anexos = <<>>
    /\ bucket = << >>
    /\ resp = NoCall
    /\ cache = << >>
    /\ now = 0
    /\ reqs = << >>

(***************************************************************************)
(* Calls of the storage adapter                                            *)
(***************************************************************************)
\* what the call before this one was, as far as it concerns the object name:
\* a save that returned name as its key, a delete of name that returned, or
\* anything else
After(name) ==
    IF resp.op = "save" /\ resp.raised = "none" /\ resp.key = name THEN "save"
    ELSE IF resp.op = "delete" /\ ~resp.raised /\ resp.name = name THEN "delete"
    ELSE "other"

Save(name, file_size, F, putFault) ==
    LET r == StorageSave(bucket, name, file_size, F, putFault)
    IN  /\ Cardinality(DOMAIN bucket) < MaxObjects
        /\ bucket' = r.bucket
        /\ resp' = [op |-> "save", name |-> name, size |-> file_size,
                    raised |-> r.raised, key |-> r.key, probes |-> r.probes,
                    overwrote |-> r.overwrote, put |-> r.put]
        /\ UNCHANGED anexos
        /\ UNCHANGED otherVars

GetAvailableName(name, F) ==
    LET r == get_available_name(bucket, name, F)
    IN  /\ resp' = [op |-> "get_available_name", name |-> name,
                    raised |-> r.raised, ret |-> r.name, probes |-> r.probes]
        /\ UNCHANGED <<anexos, bucket>>
        /\ UNCHANGED otherVars

Delete(name, out) ==
    LET r == StorageDelete(bucket, name, out)
    IN  /\ bucket' = r.bucket
        /\ resp' = [op |-> "delete", name |-> name, raised |-> r.raised,
                    out |-> out]
        /\ UNCHANGED anexos
        /\ UNCHANGED otherVars

Exists(name, fault) ==
    LET out == stat_object(bucket, name, fault)
        r == exists(out)
    IN  /\ resp' = [op |-> "exists", name |-> name, out |-> out,
                    raised |-> r.raised, ret |-> r.ret, after |-> After(name)]
        /\ UNCHANGED <<anexos, bucket>>
        /\ UNCHANGED otherVars

Size(name, fault) ==
    LET out == stat_object(bucket, name, fault)
        r == size(bucket, name, out)
    IN  /\ resp' = [op |-> "size", name |-> name, out |-> out,
                    raised |-> r.raised, ret |-> r.ret, after |-> After(name)]
        /\ UNCHANGED <<anexos, bucket>>
        /\ UNCHANGED otherVars

\* names a caller can hold: the candidates and every key of the bucket
KnownNames == CandidateNames \cup DOMAIN bucket

SaveCall == \E name \in CandidateNames, s \in ContentSizes, F \in FaultPlans,
               pf \in Faults : Save(name, s, F, pf)
GetAvailableNameCall == \E name \in CandidateNames, F \in FaultPlans :
                            GetAvailableName(name, F)
DeleteCall == \E name \in KnownNames : \E out \in RemoveOutcomes(bucket, name) :
                  Delete(name, out)
ExistsCall == \E name \in KnownNames, f \in Faults : Exists(name, f)
SizeCall == \E name \in KnownNames, f \in Faults : Size(name, f)

NextStorage == SaveCall \/ GetAvailableNameCall \/ DeleteCall \/ ExistsCall \/ SizeCall

SpecStorage == Init /\ [][NextStorage]_vars

(***************************************************************************)
(* The Anexo model: quota functions and save                               *)
(***************************************************************************)
MiB == 1024 * 1024

\* LIMITE_TOTAL of pode_adicionar_anexo
LIMITE_TOTAL == 10 * 1024 * 1024

\* the size limit of one file in validate_arquivo
TAMANHO_MAXIMO_ARQUIVO == 10 * 1024 * 1024

\* SQL NULL and a non-NULL integer, as the result of an aggregate
Null == [null |-> TRUE, v |-> 0]
NotNull(n) == [null |-> FALSE, v |-> n]

\* models.Sum over the filtered rows: NULL (None) when no row matches
RECURSIVE SumAggregate(_, _, _)
SumAggregate_wrong(rows, uuid, i) ==
    IF i > Len(rows) THEN Null
    ELSE LET rest == SumAggregate(rows, uuid, i + 1)
         IN  IF rows[i].intercorrencia_uuid = uuid
             THEN NotNull(rows[i].tamanho_bytes + rest.v)
             ELSE rest

SumAggregate(rows, uuid, i) ==
    IF i > Len(rows) THEN Null
    ELSE LET rest == SumAggregate(rows, uuid, i + 1)
         IN  IF rows[i].intercorrencia_uuid = uuid /\ rows[i].ativo
             THEN NotNull(rows[i].tamanho_bytes + rest.v)
             ELSE rest

\* Anexo.get_tamanho_total_intercorrencia: total or 0
get_tamanho_total_intercorrencia(rows, uuid) ==
    LET total == SumAggregate(rows, uuid, 1)
    IN  IF total.null \/ total.v = 0 THEN 0 ELSE total.v

\* Anexo.pode_adicionar_anexo
pode_adicionar_anexo_wrong(rows, uuid, tamanho_novo_arquivo) ==
    LET tamanho_atual == get_tamanho_total_intercorrencia(rows, uuid)
        tamanho_final == tamanho_atual + tamanho_novo_arquivo
    IN  tamanho_final < LIMITE_TOTAL

pode_adicionar_anexo(rows, uuid, tamanho_novo_arquivo) ==
    LET tamanho_atual == get_tamanho_total_intercorrencia(rows, uuid)
        tamanho_final == tamanho_atual + tamanho_novo_arquivo
    IN  tamanho_final <= LIMITE_TOTAL

\* Anexo.save, the part that fills tamanho_bytes: only when it is not set
AnexoSaveTamanho(tamanho_bytes, arquivo_size) ==
    IF tamanho_bytes = 0 THEN arquivo_size ELSE tamanho_bytes

(***************************************************************************)
(* AnexoSerializer                                                         *)
(***************************************************************************)
\* the arquivo attribute of a request that carries no file
NoFile == [name |-> <<>>, size |-> 0]

Lower(c) ==
    IF c = "P" THEN "p" ELSE IF c = "D" THEN "d" ELSE IF c = "F" THEN "f" ELSE c

\* value.name.split('.')[-1].lower()
Extensao(name) ==
    LET last == SubSeq(name, RFind(name, ".") + 1, Len(name))
    IN  [i \in 1..Len(last) |-> Lower(last[i])]

extensoes_permitidas ==
    { <<"j", "p", "e", "g">>, <<"j", "p", "g">>, <<"p", "n", "g">>,
      <<"m", "p", "4">>, <<"p", "d", "f">>, <<"x", "l", "s", "x">>,
      <<"d", "o", "c", "x">>, <<"t", "x", "t">> }

\* AnexoSerializer.validate_arquivo: "ok" or the reason of the rejection
validate_arquivo(arq) ==
    IF arq.size > TAMANHO_MAXIMO_ARQUIVO THEN "arquivo_grande"
    ELSE IF Extensao(arq.name) \notin extensoes_permitidas THEN "extensao"
    ELSE "ok"

(***************************************************************************)
(* Perfis and categorias                                                   *)
(***************************************************************************)
PERFIL_CHOICES == {"diretor", "assistente", "dre", "gipe"}

\* the values (cat[0]) of each list of choices
CATEGORIA_DIRETOR_CHOICES ==
    { "boletim_ocorrencia", "registro_ocorrencia_interno",
      "protocolo_conselho_tutelar", "instrucao_normativa_20_2020" }

CATEGORIA_DRE_CHOICES ==
    { "relatorio_naapa", "relatorio_cefai", "relatorio_sts", "relatorio_cpca",
      "oficio_gcm" }

CATEGORIA_GIPE_CHOICES ==
    { "boletim_ocorrencia", "registro_intercorrencia",
      "protocolo_conselho_tutelar", "instrucao_normativa_20_2020",
      "relatorio_naapa", "relatorio_supervisao_escolar", "relatorio_cefai",
      "relatorio_sts", "relatorio_cpca", "oficio_gcm" }

CATEGORIA_CHOICES ==
    CATEGORIA_DIRETOR_CHOICES \cup CATEGORIA_DRE_CHOICES \cup CATEGORIA_GIPE_CHOICES

\* Anexo.get_categorias_validas_por_perfil with assistente given the list of dre
get_categorias_validas_por_perfil_wrong(perfil) ==
    IF perfil = "diretor" THEN CATEGORIA_DIRETOR_CHOICES
    ELSE IF perfil = "dre" \/ perfil = "assistente" THEN CATEGORIA_DRE_CHOICES
    ELSE IF perfil = "gipe" THEN CATEGORIA_GIPE_CHOICES
    ELSE {}

\* Anexo.get_categorias_validas_por_perfil
get_categorias_validas_por_perfil(perfil) ==
    IF perfil = "diretor" \/ perfil = "assistente" THEN CATEGORIA_DIRETOR_CHOICES
    ELSE IF perfil = "dre" THEN CATEGORIA_DRE_CHOICES
    ELSE IF perfil = "gipe" THEN CATEGORIA_GIPE_CHOICES
    ELSE {}

\* AnexoSerializer.validate_categoria: the perfil is the one of the request
\* (initial_data) when it carries one, else the one of the instance, else
\* None, and then nothing is checked
validate_categoria(initial_perfil, instance_perfil, value) ==
    LET perfil == IF initial_perfil # None THEN initial_perfil ELSE instance_perfil
    IN  IF perfil # None /\ value \notin get_categorias_validas_por_perfil(perfil)
        THEN "categoria"
        ELSE "ok"

\* the choices of the model fields perfil and categoria, checked by the
\* serializer's fields before validate_categoria
ValidatePerfilField(perfil) ==
    IF perfil \notin PERFIL_CHOICES THEN "perfil_invalido" ELSE "ok"

ValidateCategoriaField(initial_perfil, instance_perfil, categoria) ==
    IF categoria \notin CATEGORIA_CHOICES THEN "categoria_invalida"
    ELSE validate_categoria(initial_perfil, instance_perfil, categoria)

\* AnexoSerializer.validate: the quota check runs only when both arquivo and
\* intercorrencia_uuid are among the attributes; the external check runs when
\* intercorrencia_uuid is and the request carries a Bearer token.
\* ext: "no_token", "ok", "http_error" or "network_error"
validate(rows, uuid, arq, ext) ==
    IF arq # NoFile /\ uuid # None /\ ~pode_adicionar_anexo(rows, uuid, arq.size)
    THEN "limite"
    ELSE IF uuid # None /\ ext \in {"http_error", "network_error"}
    THEN "servico_externo"
    ELSE "ok"

\* the validation of the fields without validate_categoria
FieldErrors_wrong(instance_perfil, perfil, categoria, arq) ==
    LET vp == IF perfil = None THEN "ok" ELSE ValidatePerfilField(perfil)
        va == IF arq = NoFile THEN "ok" ELSE validate_arquivo(arq)
    IN  IF vp # "ok" THEN vp ELSE va

\* the validation of the fields the request carries, in the order of
\* Meta.fields (perfil, categoria, arquivo): the first error, or "ok".
\* A field the request does not carry is None (NoFile for arquivo).
FieldErrors(instance_perfil, perfil, categoria, arq) ==
    LET vp == IF perfil = None THEN "ok" ELSE ValidatePerfilField(perfil)
        vc == IF categoria = None THEN "ok"
              ELSE ValidateCategoriaField(perfil, instance_perfil, categoria)
        va == IF arq = NoFile THEN "ok" ELSE validate_arquivo(arq)
    IN  IF vp # "ok" THEN vp
        ELSE IF vc # "ok" THEN vc
        ELSE va

\* the serializer's field validation followed by validate
is_valid(rows, instance_perfil, perfil, categoria, uuid, arq, ext) ==
    LET vf == FieldErrors(instance_perfil, perfil, categoria, arq)
    IN  IF vf # "ok" THEN vf ELSE validate(rows, uuid, arq, ext)

\* A service that a request does not call cannot fault in it: the external
\* service is called when validation reaches it with an intercorrencia_uuid
\* and a token, the storage when validation passed and a file is written.
EnvOf(rows, instance_perfil, perfil, categoria, uuid, arq, env) ==
    LET vf == FieldErrors(instance_perfil, perfil, categoria, arq)
        reachesExt == vf = "ok" /\ uuid # None
                      /\ validate(rows, uuid, arq, "no_token") = "ok"
        reachesStorage ==
            arq # NoFile
            /\ is_valid(rows, instance_perfil, perfil, categoria, uuid, arq, env.ext) = "ok"
    IN  /\ ~reachesExt => env.ext = "no_token"
        /\ ~reachesStorage => (env.put = "none" /\ \A i \in DOMAIN env.F : env.F[i] = "none")

\* upload_to of Anexo.arquivo, "anexos/%Y/%m/%d/", on one day
UploadTo == <<"a", "/">>

(***************************************************************************)
(* Inputs of the API                                                       *)
(***************************************************************************)
Groups == {"g1", "g2"}

\* an uploaded file: name and size
Uploads ==
    { [name |-> <<"f", ".", "p", "d", "f">>, size |-> 2 * MiB],
      [name |-> <<"f", ".", "P", "D", "F">>, size |-> 8 * MiB],
      [name |-> <<"f", ".", "p", "d", "f">>, size |-> 10 * MiB + 1],
      [name |-> <<"f", ".", "s", "h">>, size |-> 2 * MiB] }

NoFaults == [i \in FaultPositions |-> "none"]

\* What the services behind a request do: the external intercorrencia
\* service (ext: "no_token" when the request carries no Bearer token, so
\* that it is not called), the stat_object of get_available_name (F) and
\* put_object (put).  One fault at most in a request.  The answers of the
\* external service are varied by the requests of SpecCreate below.
Envs ==
    { [ext |-> "no_token", F |-> NoFaults, put |-> "none"],
      [ext |-> "http_error", F |-> NoFaults, put |-> "none"],
      [ext |-> "no_token", F |-> [NoFaults EXCEPT ![1] = "AccessDenied"], put |-> "none"],
      [ext |-> "no_token", F |-> [NoFaults EXCEPT ![1] = "Transport"], put |-> "none"],
      [ext |-> "no_token", F |-> NoFaults, put |-> "AccessDenied"] }

\* JSON values of tamanho_bytes in the body of validar-limite
JsonNull == [t |-> "null", v |-> 0]
JsonInt(n) == [t |-> "int", v |-> n]
JsonStr(n) == [t |-> "str", v |-> n]      \* the decimal string of n
TamanhoInputs ==
    { JsonNull, JsonInt(0), JsonInt(-1), JsonStr(0),
      JsonInt(2 * MiB), JsonInt(2 * MiB + 1), JsonInt(3 * MiB) }

\* Python truth value of a JSON value: None and 0 are false, a non-empty
\* string is true
Truthy(x) == ~(x.t = "null" \/ (x.t = "int" /\ x.v = 0))

(***************************************************************************)
(* AnexoViewSet                                                            *)
(***************************************************************************)
RemoveAt(seq, i) == SubSeq(seq, 1, i - 1) \o SubSeq(seq, i + 1, Len(seq))

\* POST /anexos/ : perfil, categoria, intercorrencia_uuid and arquivo are
\* required (perfil or categoria None: the request does not carry it).
\* The answer records the request (uuid, name, size, perfil, categoria), what
\* the external check did in it (ext) and what put_object did (put,
\* "notcalled" when the request did not reach it).
Create(perfil, categoria, uuid, arq, env) ==
    LET v == IF perfil = None \/ categoria = None THEN "required"
             ELSE is_valid(anexos, None, perfil, categoria, uuid, arq, env.ext)
        st == StorageSave(bucket, os_path_join(UploadTo, arq.name), arq.size,
                          env.F, env.put)
        req == [op |-> "create", uuid |-> uuid, name |-> arq.name,
                size |-> arq.size, perfil |-> perfil, categoria |-> categoria,
                ext |-> env.ext]
    IN  /\ Len(anexos) < MaxAnexos
        /\ Cardinality(DOMAIN bucket) < MaxStored
        /\ IF perfil = None \/ categoria = None
           THEN env = [ext |-> "no_token", F |-> NoFaults, put |-> "none"]
           ELSE EnvOf(anexos, None, perfil, categoria, uuid, arq, env)
        /\ IF v # "ok"
           THEN /\ resp' = req @@ [status |-> 400, motivo |-> v,
                                   put |-> "notcalled"]
                /\ UNCHANGED <<anexos, bucket>>
           ELSE IF st.raised # "none"
           THEN /\ resp' = req @@ [status |-> 500, motivo |-> st.raised,
                                   put |-> st.put]
                /\ UNCHANGED <<anexos, bucket>>
           ELSE /\ bucket' = st.bucket
                /\ anexos' = Append(anexos,
                       [intercorrencia_uuid |-> uuid,
                        perfil |-> perfil,
                        categoria |-> categoria,
                        arquivo |-> st.key,
                        arquivo_size |-> arq.size,
                        tamanho_bytes |-> AnexoSaveTamanho(arq.size, arq.size),
                        ativo |-> TRUE])
                /\ resp' = req @@ [status |-> 201, motivo |-> "ok",
                                   put |-> st.put]
    /\ UNCHANGED otherVars

\* UpdateModelMixin.update on the row i of the queryset (ativo=True): perfil,
\* categoria and uuid are None, arq is NoFile, when the request does not carry
\* the field; the serializer sets the fields it validated and saves the row
UpdateAnexo(op, i, perfil, categoria, uuid, arq, env) ==
    LET v == is_valid(anexos, anexos[i].perfil, perfil, categoria, uuid, arq, env.ext)
        st == IF arq = NoFile
              THEN [raised |-> "none", key |-> anexos[i].arquivo, bucket |-> bucket]
              ELSE StorageSave(bucket, os_path_join(UploadTo, arq.name), arq.size,
                               env.F, env.put)
    IN  /\ anexos[i].ativo
        /\ arq # NoFile => Cardinality(DOMAIN bucket) < MaxStored
        /\ EnvOf(anexos, anexos[i].perfil, perfil, categoria, uuid, arq, env)
        /\ IF v # "ok"
           THEN /\ resp' = [op |-> op, status |-> 400, motivo |-> v]
                /\ UNCHANGED <<anexos, bucket>>
           ELSE IF st.raised # "none"
           THEN /\ resp' = [op |-> op, status |-> 500, motivo |-> st.raised]
                /\ UNCHANGED <<anexos, bucket>>
           ELSE /\ bucket' = st.bucket
                /\ anexos' = [anexos EXCEPT ![i] =
                       [intercorrencia_uuid |->
                            IF uuid = None THEN @.intercorrencia_uuid ELSE uuid,
                        perfil |-> IF perfil = None THEN @.perfil ELSE perfil,
                        categoria |-> IF categoria = None THEN @.categoria ELSE categoria,
                        arquivo |-> st.key,
                        arquivo_size |-> IF arq = NoFile THEN @.arquivo_size ELSE arq.size,
                        tamanho_bytes |->
                            AnexoSaveTamanho(@.tamanho_bytes,
                                IF arq = NoFile THEN @.arquivo_size ELSE arq.size),
                        ativo |-> @.ativo]]
                /\ resp' = [op |-> op, status |-> 200, motivo |-> "ok"]
    /\ UNCHANGED otherVars

\* PUT /anexos/{uuid}/ : every writable field is required
Update(i, perfil, categoria, uuid, arq, env) ==
    IF perfil = None \/ categoria = None \/ uuid = None \/ arq = NoFile
    THEN /\ anexos[i].ativo
         /\ env = [ext |-> "no_token", F |-> NoFaults, put |-> "none"]
         /\ resp' = [op |-> "update", status |-> 400, motivo |-> "required"]
         /\ UNCHANGED <<anexos, bucket>>
         /\ UNCHANGED otherVars
    ELSE UpdateAnexo("update", i, perfil, categoria, uuid, arq, env)

\* PATCH /anexos/{uuid}/
PartialUpdate(i, perfil, categoria, uuid, arq, env) ==
    UpdateAnexo("partial_update", i, perfil, categoria, uuid, arq, env)

\* destroy with the failure of arquivo.delete passed on to the outer handler
Destroy_wrong(i, out, dbError) ==
    LET d == StorageDelete(bucket, anexos[i].arquivo, out)
    IN  /\ anexos[i].ativo
        /\ bucket' = d.bucket
        /\ IF d.raised
           THEN /\ resp' = [op |-> "destroy", status |-> 500, motivo |-> "arquivo",
                            out |-> out]
                /\ UNCHANGED anexos
           ELSE IF dbError
           THEN /\ resp' = [op |-> "destroy", status |-> 500, motivo |-> "db",
                            out |-> out]
                /\ UNCHANGED anexos
           ELSE /\ anexos' = RemoveAt(anexos, i)
                /\ resp' = [op |-> "destroy", status |-> 204, motivo |-> "ok",
                            out |-> out]
    /\ UNCHANGED otherVars

\* DELETE /anexos/{uuid}/ on the row i.  out is what remove_object does for
\* the row's object, dbError whether anexo.delete() raises.  motivo: "db" when
\* the row deletion failed, "arquivo" when arquivo.delete raised and the
\* inner handler logged it.
Destroy(i, out, dbError) ==
    LET d == StorageDelete(bucket, anexos[i].arquivo, out)
    IN  /\ anexos[i].ativo
        /\ bucket' = d.bucket
        /\ IF dbError
           THEN /\ resp' = [op |-> "destroy", status |-> 500, motivo |-> "db",
                            out |-> out]
                /\ UNCHANGED anexos
           ELSE /\ anexos' = RemoveAt(anexos, i)
                /\ resp' = [op |-> "destroy", status |-> 204,
                            motivo |-> IF d.raised THEN "arquivo" ELSE "ok",
                            out |-> out]
    /\ UNCHANGED otherVars

\* Anexo.excluir_logicamente on the row i
ExcluirLogicamente(i) ==
    /\ anexos' = [anexos EXCEPT ![i] =
           [@ EXCEPT !.ativo = FALSE,
                     !.tamanho_bytes = AnexoSaveTamanho(@, anexos[i].arquivo_size)]]
    /\ resp' = [op |-> "excluir_logicamente",
                uuid |-> anexos[i].intercorrencia_uuid,
                ativo_antes |-> anexos[i].ativo,
                tamanho_bytes |-> anexos[i].tamanho_bytes,
                tamanho_antes |-> get_tamanho_total_intercorrencia(anexos,
                                      anexos[i].intercorrencia_uuid)]
    /\ UNCHANGED bucket
    /\ UNCHANGED otherVars

\* POST /anexos/validar-limite/
ValidarLimite(uuid, tamanho) ==
    /\ IF uuid = None \/ ~Truthy(tamanho)
       THEN resp' = [op |-> "validar_limite", status |-> 400]
       ELSE resp' = [op |-> "validar_limite", status |-> 200, uuid |-> uuid,
                     tamanho_bytes |-> tamanho.v,
                     pode_adicionar |-> pode_adicionar_anexo(anexos, uuid, tamanho.v),
                     tamanho_atual |-> get_tamanho_total_intercorrencia(anexos, uuid)]
    /\ UNCHANGED <<anexos, bucket>>
    /\ UNCHANGED otherVars

Rows == 1..Len(anexos)

\* the requests of the write path carry one valid pair of perfil and
\* categoria; the pairs are varied by the requests of SpecCategoria below
CreateRequest == \E uuid \in Groups, arq \in Uploads, env \in Envs :
                    Create("diretor", "boletim_ocorrencia", uuid, arq, env)
UpdateRequest == \E i \in Rows, uuid \in Groups \cup {None},
                    arq \in Uploads \cup {NoFile}, env \in Envs :
                    Update(i, "diretor", "boletim_ocorrencia", uuid, arq, env)
PartialUpdateRequest == \E i \in Rows, uuid \in Groups \cup {None},
                           arq \in Uploads \cup {NoFile}, env \in Envs :
                           PartialUpdate(i, None, None, uuid, arq, env)
DestroyRequest == \E i \in Rows, dbError \in BOOLEAN :
                     \E out \in RemoveOutcomes(bucket, anexos[i].arquivo) :
                        Destroy(i, out, dbError)
ExcluirLogicamenteCall == \E i \in Rows : ExcluirLogicamente(i)
ValidarLimiteRequest == \E uuid \in Groups \cup {None}, tamanho \in TamanhoInputs :
                           ValidarLimite(uuid, tamanho)

\* the write requests of the API
Next == \/ CreateRequest
        \/ UpdateRequest
        \/ PartialUpdateRequest
        \/ DestroyRequest

Spec == Init /\ [][Next]_vars

\* Anexo.objects.create(...) with a file of arquivo_size bytes and the given
\* tamanho_bytes (0 when the caller leaves it unset), as the model's tests do
AnexoCreate(uuid, arquivo_size, tamanho_bytes) ==
    LET st == StorageSave(bucket, os_path_join(UploadTo, <<"f", ".", "p", "d", "f">>),
                          arquivo_size, NoFaults, "none")
    IN  /\ Len(anexos) < MaxAnexos
        /\ bucket' = st.bucket
        /\ anexos' = Append(anexos,
               [intercorrencia_uuid |-> uuid,
                perfil |-> "diretor",
                categoria |-> "boletim_ocorrencia",
                arquivo |-> st.key,
                arquivo_size |-> arquivo_size,
                tamanho_bytes |-> AnexoSaveTamanho(tamanho_bytes, arquivo_size),
                ativo |-> TRUE])
        /\ resp' = [op |-> "anexo_create"]
        /\ UNCHANGED otherVars

AnexoCreateCall == \E uuid \in Groups, tamanho_bytes \in {0, 8 * MiB} :
                      AnexoCreate(uuid, 2 * MiB, tamanho_bytes)

\* the quota functions over a table filled through the model
NextQuota == \/ AnexoCreateCall
             \/ ExcluirLogicamenteCall
             \/ ValidarLimiteRequest

SpecQuota == Init /\ [][NextQuota]_vars

(***************************************************************************)
(* The category policy through the API                                     *)
(***************************************************************************)
\* GET /anexos/categorias-disponiveis/?perfil=...
CategoriasDisponiveis(perfil) ==
    /\ IF perfil = None
       THEN resp' = [op |-> "categorias_disponiveis", status |-> 400,
                     perfil |-> perfil, categorias |-> {}]
       ELSE IF perfil \notin PERFIL_CHOICES
       THEN resp' = [op |-> "categorias_disponiveis", status |-> 400,
                     perfil |-> perfil, categorias |-> {}]
       ELSE resp' = [op |-> "categorias_disponiveis", status |-> 200,
                     perfil |-> perfil,
                     categorias |-> get_categorias_validas_por_perfil(perfil)]
    /\ UNCHANGED <<anexos, bucket>>
    /\ UNCHANGED otherVars

\* the four perfis and one that is not a perfil
PerfilInputs == PERFIL_CHOICES \cup {"outro"}

\* one category of diretor and gipe, one of diretor only, one of dre and
\* gipe, one of gipe only, and one that is not a category
CategoriaInputs ==
    { "boletim_ocorrencia", "registro_ocorrencia_interno", "relatorio_naapa",
      "registro_intercorrencia", "outra" }

SmallPdf == [name |-> <<"f", ".", "p", "d", "f">>, size |-> 2 * MiB]

QuietEnv == [ext |-> "no_token", F |-> NoFaults, put |-> "none"]

CategoriaCreateRequest ==
    \E perfil \in PerfilInputs \cup {None}, categoria \in CategoriaInputs \cup {None} :
        Create(perfil, categoria, "g1", SmallPdf, QuietEnv)

CategoriaUpdateRequest ==
    \E i \in Rows, perfil \in PerfilInputs, categoria \in CategoriaInputs :
        Update(i, perfil, categoria, "g1", SmallPdf, QuietEnv)

CategoriaPartialUpdateRequest ==
    \E i \in Rows, perfil \in PerfilInputs \cup {None},
       categoria \in CategoriaInputs \cup {None} :
        PartialUpdate(i, perfil, categoria, None, NoFile, QuietEnv)

CategoriasDisponiveisRequest ==
    \E perfil \in PerfilInputs \cup {None} : CategoriasDisponiveis(perfil)

NextCategoria == \/ CategoriaCreateRequest
                 \/ CategoriaUpdateRequest
                 \/ CategoriaPartialUpdateRequest
                 \/ CategoriasDisponiveisRequest

SpecCategoria == Init /\ [][NextCategoria]_vars

(***************************************************************************)
(* RemoteJWTAuthentication                                                 *)
(***************************************************************************)
\* how often the clock advances, and by how many seconds
MaxTicks == 4
TickSteps == {20}

Max(a, b) == IF a >= b THEN a ELSE b
Min(a, b) == IF a <= b THEN a ELSE b

\* django.core.cache: get returns the value while the entry has not expired
cache_get(c, key, t) ==
    IF key \in DOMAIN c /\ c[key].expires > t
    THEN [hit |-> TRUE, value |-> c[key].value, created |-> c[key].created]
    ELSE [hit |-> FALSE, value |-> None, created |-> 0]

\* cache.set(key, value, ttl) at the time t
cache_set(c, key, value, ttl, t) ==
    [k \in DOMAIN c \cup {key} |->
        IF k = key THEN [value |-> value, created |-> t, expires |-> t + ttl]
        ELSE c[k]]

\* the backend drops the entries that have expired at the time t
Expire(c, t) ==
    [k \in {x \in DOMAIN c : c[x].expires > t} |-> c[k]]

\* bytes.lower() of the first word of the header
LowerWord(w) ==
    IF w \in {"Bearer", "BEARER", "bearer"} THEN "bearer"
    ELSE IF w \in {"Basic", "basic"} THEN "basic"
    ELSE w

\* line 32 without the test of the number of parts
HeaderIsBearer_wrong(auth) ==
    ~(auth = <<>> \/ LowerWord(auth[1]) # "bearer" \/ Len(auth) < 2)

\* line 32: auth is the header split at white space
HeaderIsBearer(auth) ==
    ~(auth = <<>> \/ LowerWord(auth[1]) # "bearer" \/ Len(auth) # 2)

\* The claims of each token, as jwt.decode returns them: None for a claim the
\* token does not carry, "" for an empty one; exp in seconds of the clock,
\* -1 when the token carries none.
\* "t_bad" is not a token the key verifies.
Tokens == {"t_user", "t_uid", "t_none", "t_bad"}

NoClaims ==
    [username |-> None, sub |-> None, user_id |-> None, name |-> None,
     perfil_codigo |-> None, cargo_codigo |-> None, exp |-> -1]

TokenPayload(token) ==
    CASE token = "t_user" ->
           [NoClaims EXCEPT !.username = "alice", !.sub = "s1", !.user_id = "7",
                            !.name = "Alice", !.exp = 3600]
      [] token = "t_uid" ->
           [NoClaims EXCEPT !.username = "", !.user_id = "7",
                            !.cargo_codigo = "3360", !.exp = 25]
      [] OTHER -> [NoClaims EXCEPT !.name = "Nemo"]

\* jwt.decode with verify_signature: fails on a token the key does not
\* verify and on one whose exp has passed
jwt_decode(token, t) ==
    IF token = "t_bad" THEN [ok |-> FALSE, payload |-> NoClaims]
    ELSE IF TokenPayload(token).exp # -1 /\ TokenPayload(token).exp <= t
    THEN [ok |-> FALSE, payload |-> NoClaims]
    ELSE [ok |-> TRUE, payload |-> TokenPayload(token)]

\* truth value of a dict of claims: false when it is empty
PayloadTruthy(p) == p.exp # -1 \/ \E k \in DOMAIN p \ {"exp"} : p[k] # None

\* lines 92-94 without the cap of 60 seconds
ClaimsTtl_wrong(payload, t) ==
    LET exp == IF payload.exp = -1 THEN t + 60 ELSE payload.exp
    IN  Max(1, exp - t)

\* lines 92-94: ttl = max(1, min(60, exp - now))
ClaimsTtl(payload, t) ==
    LET exp == IF payload.exp = -1 THEN t + 60 ELSE payload.exp
    IN  Max(1, Min(60, exp - t))

\* _verify_and_get_payload without the test of the status code
verify_and_get_payload_wrong(c, t, token, out) ==
    LET key == <<"jwtv", token>>
        g == cache_get(c, key, t)
        d == jwt_decode(token, t)
    IN  IF g.hit /\ PayloadTruthy(g.value)
        THEN [raised |-> "none", payload |-> g.value, cache |-> c,
              called |-> FALSE, posts |-> 0, age |-> t - g.created, ttl |-> 0]
        ELSE IF out = "transport"
        THEN [raised |-> "contato", payload |-> NoClaims, cache |-> c,
              called |-> TRUE, posts |-> 1, age |-> 0, ttl |-> 0]
        ELSE IF ~d.ok
        THEN [raised |-> "malformado", payload |-> NoClaims, cache |-> c,
              called |-> TRUE, posts |-> 1, age |-> 0, ttl |-> 0]
        ELSE [raised |-> "none", payload |-> d.payload,
              cache |-> cache_set(c, key, d.payload, ClaimsTtl(d.payload, t), t),
              called |-> TRUE, posts |-> 1, age |-> 0, ttl |-> ClaimsTtl(d.payload, t)]

\* _verify_and_get_payload without the lookup of lines 68-70
verify_and_get_payload_uncached(c, t, token, out) ==
    LET key == <<"jwtv", token>>
        d == jwt_decode(token, t)
    IN  IF out = "transport"
        THEN [raised |-> "contato", payload |-> NoClaims, cache |-> c,
              called |-> TRUE, posts |-> 1, age |-> 0, ttl |-> 0]
        ELSE IF out # "200"
        THEN [raised |-> "invalido", payload |-> NoClaims, cache |-> c,
              called |-> TRUE, posts |-> 1, age |-> 0, ttl |-> 0]
        ELSE IF ~d.ok
        THEN [raised |-> "malformado", payload |-> NoClaims, cache |-> c,
              called |-> TRUE, posts |-> 1, age |-> 0, ttl |-> 0]
        ELSE [raised |-> "none", payload |-> d.payload,
              cache |-> cache_set(c, key, d.payload, ClaimsTtl(d.payload, t), t),
              called |-> TRUE, posts |-> 1, age |-> 0, ttl |-> ClaimsTtl(d.payload, t)]

\* _verify_and_get_payload with the request sent a second time after a
\* RequestException
verify_and_get_payload_retry(c, t, token, out) ==
    LET key == <<"jwtv", token>>
        g == cache_get(c, key, t)
        d == jwt_decode(token, t)
    IN  IF g.hit /\ PayloadTruthy(g.value)
        THEN [raised |-> "none", payload |-> g.value, cache |-> c,
              called |-> FALSE, posts |-> 0, age |-> t - g.created, ttl |-> 0]
        ELSE IF out = "transport"
        THEN [raised |-> "contato", payload |-> NoClaims, cache |-> c,
              called |-> TRUE, posts |-> 2, age |-> 0, ttl |-> 0]
        ELSE IF out # "200"
        THEN [raised |-> "invalido", payload |-> NoClaims, cache |-> c,
              called |-> TRUE, posts |-> 1, age |-> 0, ttl |-> 0]
        ELSE IF ~d.ok
        THEN [raised |-> "malformado", payload |-> NoClaims, cache |-> c,
              called |-> TRUE, posts |-> 1, age |-> 0, ttl |-> 0]
        ELSE [raised |-> "none", payload |-> d.payload,
              cache |-> cache_set(c, key, d.payload, ClaimsTtl(d.payload, t), t),
              called |-> TRUE, posts |-> 1, age |-> 0, ttl |-> ClaimsTtl(d.payload, t)]

\* _verify_and_get_payload.  out is what requests.post does: "200", another
\* status, or "transport" for a RequestException.  raised: "none" or the
\* AuthenticationFailed raised; called: the remote service was contacted;
\* posts: the requests sent to it (line 74, in no loop);
\* age: seconds since the cached claims were stored, when they are served.
verify_and_get_payload(c, t, token, out) ==
    LET key == <<"jwtv", token>>
        g == cache_get(c, key, t)
        d == jwt_decode(token, t)
    IN  IF g.hit /\ PayloadTruthy(g.value)
        THEN [raised |-> "none", payload |-> g.value, cache |-> c,
              called |-> FALSE, posts |-> 0, age |-> t - g.created, ttl |-> 0]
        ELSE IF out = "transport"
        THEN [raised |-> "contato", payload |-> NoClaims, cache |-> c,
              called |-> TRUE, posts |-> 1, age |-> 0, ttl |-> 0]
        ELSE IF out # "200"
        THEN [raised |-> "invalido", payload |-> NoClaims, cache |-> c,
              called |-> TRUE, posts |-> 1, age |-> 0, ttl |-> 0]
        ELSE IF ~d.ok
        THEN [raised |-> "malformado", payload |-> NoClaims, cache |-> c,
              called |-> TRUE, posts |-> 1, age |-> 0, ttl |-> 0]
        ELSE [raised |-> "none", payload |-> d.payload,
              cache |-> cache_set(c, key, d.payload, ClaimsTtl(d.payload, t), t),
              called |-> TRUE, posts |-> 1, age |-> 0, ttl |-> ClaimsTtl(d.payload, t)]

\* Python's truth value of a claim or of a field
Falsy(x) == x = None \/ x = ""

\* x or y
Or(x, y) == IF Falsy(x) THEN y ELSE x

\* lines 40-44 with sub looked up first
Username_wrong(user_payload) ==
    Or(user_payload.sub, Or(user_payload.username, user_payload.user_id))

\* lines 40-44: username or sub or user_id
Username(user_payload) ==
    Or(user_payload.username, Or(user_payload.sub, user_payload.user_id))

\* The JSON object of the identity endpoint.  A key the object does not
\* carry is None; an object that is absent or empty has every key None.
NoDre == [nome |-> None, codigo_eol |-> None, codigo |-> None]

NoUnidade == [nome |-> None, codigo_eol |-> None, codigo |-> None, dre |-> NoDre]

NoUserData ==
    [name |-> None, first_name |-> None, cargo_codigo |-> None,
     perfil_codigo |-> None, unidade_codigo_eol |-> None,
     dre_codigo_eol |-> None, unidade |-> NoUnidade, escola |-> NoUnidade,
     dre |-> NoDre]

\* truth value of a dict: true when it has a key
DreTruthy(d) == d.nome # None \/ d.codigo_eol # None \/ d.codigo # None

UnidadeTruthy(u) ==
    u.nome # None \/ u.codigo_eol # None \/ u.codigo # None \/ DreTruthy(u.dre)

\* the enrichment when there is none: every .get of {} gives None
EmptyInfo ==
    [name |-> None, cargo_codigo |-> None, unidade_codigo_eol |-> None,
     dre_codigo_eol |-> None]

\* _parse_user_data, assignment by assignment
parse_user_data(user_data) ==
    LET info0 == [name |-> Or(user_data.name, user_data.first_name),
                  cargo_codigo |-> Or(user_data.cargo_codigo, user_data.perfil_codigo),
                  unidade_codigo_eol |-> None,
                  dre_codigo_eol |-> None]
        info1 == IF ~Falsy(user_data.unidade_codigo_eol)
                 THEN [info0 EXCEPT !.unidade_codigo_eol = user_data.unidade_codigo_eol]
                 ELSE info0
        info2 == IF ~Falsy(user_data.dre_codigo_eol)
                 THEN [info1 EXCEPT !.dre_codigo_eol = user_data.dre_codigo_eol]
                 ELSE info1
        unidade == IF UnidadeTruthy(user_data.unidade) THEN user_data.unidade
                   ELSE user_data.escola
        info3 == IF UnidadeTruthy(unidade)
                 THEN [info2 EXCEPT !.unidade_codigo_eol =
                                        Or(unidade.codigo_eol, unidade.codigo)]
                 ELSE info2
        info4 == IF UnidadeTruthy(unidade) /\ DreTruthy(unidade.dre)
                 THEN [info3 EXCEPT !.dre_codigo_eol =
                                        Or(unidade.dre.codigo_eol, unidade.dre.codigo)]
                 ELSE info3
    IN  IF DreTruthy(user_data.dre)
        THEN [info4 EXCEPT !.dre_codigo_eol =
                               Or(user_data.dre.codigo_eol, user_data.dre.codigo)]
        ELSE info4

\* _get_user_info with a transport failure passed on to the caller
get_user_info_wrong(c, t, token, username, out, user_data) ==
    LET key == <<"user_info", username, token>>
        g == cache_get(c, key, t)
    IN  IF g.hit
        THEN [raised |-> FALSE, info |-> g.value, cache |-> c, called |-> FALSE, gets |-> 0]
        ELSE IF out = "transport"
        THEN [raised |-> TRUE, info |-> EmptyInfo, cache |-> c, called |-> TRUE, gets |-> 1]
        ELSE IF out = "200"
        THEN [raised |-> FALSE, info |-> parse_user_data(user_data),
              cache |-> cache_set(c, key, parse_user_data(user_data), 30, t),
              called |-> TRUE, gets |-> 1]
        ELSE [raised |-> FALSE, info |-> EmptyInfo, cache |-> c, called |-> TRUE, gets |-> 1]

\* _get_user_info with the empty enrichment of a failure stored as well
get_user_info_negative(c, t, token, username, out, user_data) ==
    LET key == <<"user_info", username, token>>
        g == cache_get(c, key, t)
    IN  IF g.hit
        THEN [raised |-> FALSE, info |-> g.value, cache |-> c,
              called |-> FALSE, gets |-> 0]
        ELSE IF out = "200"
        THEN [raised |-> FALSE, info |-> parse_user_data(user_data),
              cache |-> cache_set(c, key, parse_user_data(user_data), 30, t),
              called |-> TRUE, gets |-> 1]
        ELSE [raised |-> FALSE, info |-> EmptyInfo,
              cache |-> cache_set(c, key, EmptyInfo, 30, t),
              called |-> TRUE, gets |-> 1]

\* _get_user_info.  out is what requests.get does: "200" with the JSON object
\* user_data, another status, or "transport" for a RequestException.  The
\* cached value is a dict of four keys, which is always true.  gets: the
\* requests sent to the identity endpoint (line 108, in no loop).
get_user_info(c, t, token, username, out, user_data) ==
    LET key == <<"user_info", username, token>>
        g == cache_get(c, key, t)
    IN  IF g.hit
        THEN [raised |-> FALSE, info |-> g.value, cache |-> c, called |-> FALSE, gets |-> 0]
        ELSE IF out = "transport"
        THEN [raised |-> FALSE, info |-> EmptyInfo, cache |-> c, called |-> TRUE, gets |-> 1]
        ELSE IF out = "200"
        THEN [raised |-> FALSE, info |-> parse_user_data(user_data),
              cache |-> cache_set(c, key, parse_user_data(user_data), 30, t),
              called |-> TRUE, gets |-> 1]
        ELSE [raised |-> FALSE, info |-> EmptyInfo, cache |-> c, called |-> TRUE, gets |-> 1]

NoUser ==
    [username |-> None, name |-> None, cargo_codigo |-> None,
     unidade_codigo_eol |-> None, dre_codigo_eol |-> None]

\* the header of the request, split at white space
Headers ==
    { <<>>, <<"Bearer">>, <<"Basic", "t_user">>, <<"Bearer", "t_user", "x">>,
      <<"bearer", "t_user">> }
    \cup { <<"Bearer", t>> : t \in Tokens }

\* what the two remote endpoints do in a request; me = "unset": ME_URL is
\* not configured
VerifyOutcomes == {"200", "401", "transport"}
MeOutcomes == {"unset", "200", "500", "transport"}

\* the object the identity endpoint answers with for every user
MeUserData ==
    [NoUserData EXCEPT !.first_name = "Al", !.perfil_codigo = "3085",
                       !.unidade_codigo_eol = "U0", !.dre_codigo_eol = "D0"]

\* authenticate with the cached identity looked up before the verification,
\* and served when the verification fails
authenticate_wrong(auth, vout, mout) ==
    IF ~HeaderIsBearer(auth)
    THEN /\ resp' = [op |-> "authenticate", header |-> auth, token |-> None,
                     result |-> "None", motivo |-> "ok", user |-> NoUser,
                     verify |-> "notcalled", me |-> "notcalled",
                     cache_used |-> FALSE, age |-> -1, ttl |-> 0,
                     posts |-> 0, gets |-> 0]
         /\ vout = "200" /\ mout = "200"
         /\ UNCHANGED cache
    ELSE LET token == auth[2]
             known == Username(TokenPayload(token))
             g == cache_get(cache, <<"user_info", known, token>>, now)
             v == verify_and_get_payload(cache, now, token, vout)
             username == Username(v.payload)
             u == IF mout = "unset"
                  THEN [raised |-> FALSE, info |-> EmptyInfo, cache |-> v.cache,
                        called |-> FALSE, gets |-> 0]
                  ELSE get_user_info(v.cache, now, token, username, mout, MeUserData)
             base == [op |-> "authenticate", header |-> auth, token |-> token,
                      result |-> "AuthenticationFailed", motivo |-> v.raised,
                      user |-> NoUser,
                      verify |-> IF v.called THEN vout ELSE "notcalled",
                      me |-> "notcalled", cache_used |-> TRUE,
                      age |-> IF v.called THEN -1 ELSE v.age, ttl |-> v.ttl,
                      posts |-> v.posts, gets |-> 0]
         IN  /\ ~v.called => vout = "200"
             /\ IF v.raised # "none" /\ g.hit
                THEN /\ resp' = [base EXCEPT
                           !.result = "user",
                           !.user = [username |-> known,
                                     name |-> g.value.name,
                                     cargo_codigo |-> g.value.cargo_codigo,
                                     unidade_codigo_eol |-> g.value.unidade_codigo_eol,
                                     dre_codigo_eol |-> g.value.dre_codigo_eol]]
                     /\ mout = "200"
                     /\ cache' = v.cache
                ELSE IF v.raised # "none"
                THEN /\ resp' = base
                     /\ mout = "200"
                     /\ cache' = v.cache
                ELSE IF Falsy(username)
                THEN /\ resp' = [base EXCEPT !.motivo = "sem_subject"]
                     /\ mout = "200"
                     /\ cache' = v.cache
                ELSE IF u.raised
                THEN /\ resp' = [base EXCEPT !.motivo = "me", !.me = mout,
                                         !.gets = u.gets]
                     /\ cache' = u.cache
                ELSE /\ (~u.called /\ mout # "unset") => mout = "200"
                     /\ resp' = [base EXCEPT
                           !.result = "user",
                           !.motivo = "ok",
                           !.me = IF u.called \/ mout = "unset" THEN mout
                                  ELSE "notcalled",
                           !.gets = u.gets,
                           !.user = [username |-> username,
                                     name |-> Or(v.payload.name, u.info.name),
                                     cargo_codigo |->
                                         Or(Or(v.payload.perfil_codigo,
                                               v.payload.cargo_codigo),
                                            u.info.cargo_codigo),
                                     unidade_codigo_eol |-> u.info.unidade_codigo_eol,
                                     dre_codigo_eol |-> u.info.dre_codigo_eol]]
                     /\ cache' = u.cache

\* RemoteJWTAuthentication.authenticate.  result: "None" (no credential),
\* "user" or "AuthenticationFailed".
authenticate(auth, vout, mout) ==
    IF ~HeaderIsBearer(auth)
    THEN /\ resp' = [op |-> "authenticate", header |-> auth, token |-> None,
                     result |-> "None", motivo |-> "ok", user |-> NoUser,
                     verify |-> "notcalled", me |-> "notcalled",
                     cache_used |-> FALSE, age |-> -1, ttl |-> 0,
                     posts |-> 0, gets |-> 0]
         /\ vout = "200" /\ mout = "200"
         /\ UNCHANGED cache
    ELSE LET token == auth[2]
             v == verify_and_get_payload(cache, now, token, vout)
             username == Username(v.payload)
             u == IF mout = "unset"
                  THEN [raised |-> FALSE, info |-> EmptyInfo, cache |-> v.cache,
                        called |-> FALSE, gets |-> 0]
                  ELSE get_user_info(v.cache, now, token, username, mout, MeUserData)
             base == [op |-> "authenticate", header |-> auth, token |-> token,
                      result |-> "AuthenticationFailed", motivo |-> v.raised,
                      user |-> NoUser,
                      verify |-> IF v.called THEN vout ELSE "notcalled",
                      me |-> "notcalled", cache_used |-> TRUE,
                      age |-> IF v.called THEN -1 ELSE v.age, ttl |-> v.ttl,
                      posts |-> v.posts, gets |-> 0]
         IN  /\ ~v.called => vout = "200"
             /\ IF v.raised # "none"
                THEN /\ resp' = base
                     /\ mout = "200"
                     /\ cache' = v.cache
                ELSE IF Falsy(username)
                THEN /\ resp' = [base EXCEPT !.motivo = "sem_subject"]
                     /\ mout = "200"
                     /\ cache' = v.cache
                ELSE IF u.raised
                THEN /\ resp' = [base EXCEPT !.motivo = "me", !.me = mout,
                                         !.gets = u.gets]
                     /\ cache' = u.cache
                ELSE /\ (~u.called /\ mout # "unset") => mout = "200"
                     /\ resp' = [base EXCEPT
                           !.result = "user",
                           !.motivo = "ok",
                           !.me = IF u.called \/ mout = "unset" THEN mout
                                  ELSE "notcalled",
                           !.gets = u.gets,
                           !.user = [username |-> username,
                                     name |-> Or(v.payload.name, u.info.name),
                                     cargo_codigo |->
                                         Or(Or(v.payload.perfil_codigo,
                                               v.payload.cargo_codigo),
                                            u.info.cargo_codigo),
                                     unidade_codigo_eol |-> u.info.unidade_codigo_eol,
                                     dre_codigo_eol |-> u.info.dre_codigo_eol]]
                     /\ cache' = u.cache

\* a request that goes through the authentication
Authenticate ==
    /\ \E auth \in Headers, vout \in VerifyOutcomes, mout \in MeOutcomes :
          authenticate(auth, vout, mout)
    /\ UNCHANGED <<anexos, bucket, now, reqs>>

\* time passes between two requests
Tick ==
    /\ \E d \in TickSteps :
          /\ now + d <= MaxTicks * d
          /\ now' = now + d
          /\ cache' = Expire(cache, now + d)
    /\ UNCHANGED <<anexos, bucket, resp, reqs>>

NextAuth == Authenticate \/ Tick

SpecAuth == Init /\ [][NextAuth]_vars

(***************************************************************************)
(* _parse_user_data over the shapes of the identity response               *)
(***************************************************************************)
\* unit objects: absent, without a code, with codigo_eol, with codigo, and
\* with a nested dre that has a code or has none
UnidadeInputs ==
    { NoUnidade,
      [NoUnidade EXCEPT !.nome = "EMEF"],
      [NoUnidade EXCEPT !.codigo_eol = "U1"],
      [NoUnidade EXCEPT !.codigo = "U2"],
      [NoUnidade EXCEPT !.nome = "EMEF", !.dre = [NoDre EXCEPT !.codigo_eol = "D1"]],
      [NoUnidade EXCEPT !.codigo_eol = "U1", !.dre = [NoDre EXCEPT !.nome = "DRE"]] }

EscolaInputs == { NoUnidade, [NoUnidade EXCEPT !.codigo_eol = "E1"] }

DreInputs == { NoDre, [NoDre EXCEPT !.nome = "DRE"], [NoDre EXCEPT !.codigo = "D2"] }

UserDataInputs ==
    { [name |-> n, first_name |-> f,
       cargo_codigo |-> IF f = None THEN None ELSE "C",
       perfil_codigo |-> IF n = None THEN None ELSE "P",
       unidade_codigo_eol |-> u0, dre_codigo_eol |-> d0,
       unidade |-> u, escola |-> e, dre |-> d] :
        n \in {None, "N"}, f \in {None, "F"}, u0 \in {None, "U0"},
        d0 \in {None, "D0"}, u \in UnidadeInputs, e \in EscolaInputs,
        d \in DreInputs }

ParseUserData(user_data) ==
    /\ resp' = [op |-> "parse_user_data", user_data |-> user_data,
                info |-> parse_user_data(user_data)]
    /\ UNCHANGED <<anexos, bucket>>
    /\ UNCHANGED otherVars

ParseUserDataCall == \E user_data \in UserDataInputs : ParseUserData(user_data)

NextParse == ParseUserDataCall

SpecParse == Init /\ [][NextParse]_vars

(***************************************************************************)
(* The external check of the intercorrencia                                *)
(***************************************************************************)
\* AnexoSerializer._get_token_from_request.  header is None when the request
\* has no Authorization header, else the words that split(' ') gives ("" for
\* the nothing between two spaces or after the last one).
get_token_from_request(header) ==
    IF header = None \/ header = <<"">> THEN None
    ELSE IF ~(Len(header) >= 2 /\ header[1] = "Bearer") THEN None
    ELSE header[2]

\* What requests.get, raise_for_status and response.json do in
\* get_detalhes_intercorrencia: exc is the exception raised ("none": the
\* details are returned), body the body of the answer that raise_for_status
\* refused: a JSON document, a text that is not JSON, or nothing.
ExternalAnswers ==
    { [exc |-> "none", body |-> "json"],
      [exc |-> "HTTPError", body |-> "json"],
      [exc |-> "HTTPError", body |-> "text"],
      [exc |-> "HTTPError", body |-> "empty"],
      [exc |-> "RequestException", body |-> "none"] }

\* get_detalhes_intercorrencia: raised is whether it raises
\* ExternalServiceError, message what the error carries: the JSON of the
\* answer, else its text, else (error_content or str(e)) the text of the
\* HTTPError; the fixed sentence for any other RequestException.
get_detalhes_intercorrencia(ans) ==
    IF ans.exc = "none" THEN [raised |-> FALSE, message |-> None]
    ELSE IF ans.exc = "HTTPError"
    THEN LET error_content == IF ans.body = "json" THEN "response.json()"
                              ELSE IF ans.body = "text" THEN "response.text"
                              ELSE ""
         IN  [raised |-> TRUE,
              message |-> IF error_content = "" THEN "str(e)" ELSE error_content]
    ELSE [raised |-> TRUE, message |-> "Nao foi possivel obter detalhes"]

\* lines 136-151 of validate with the external service called without a token
ExternalCheck_wrong(header, ans) ==
    LET r == get_detalhes_intercorrencia(ans)
    IN  [called |-> TRUE,
         ext |-> IF ~r.raised THEN "ok"
                 ELSE IF ans.exc = "HTTPError" THEN "http_error"
                 ELSE "network_error",
         detail |-> r.message]

\* lines 136-151 of validate: the external service is called when the request
\* has a token; ext is the outcome that validate sees, detail the "detail" of
\* the ValidationError it raises
ExternalCheck(header, ans) ==
    LET token == get_token_from_request(header)
        r == get_detalhes_intercorrencia(ans)
    IN  IF token = None \/ token = ""
        THEN [called |-> FALSE, ext |-> "no_token", detail |-> None]
        ELSE [called |-> TRUE,
              ext |-> IF ~r.raised THEN "ok"
                      ELSE IF ans.exc = "HTTPError" THEN "http_error"
                      ELSE "network_error",
              detail |-> r.message]

\* Authorization headers: none, empty, Bearer with a token, the scheme in
\* lower case, another scheme, Bearer alone, Bearer followed by two spaces
AuthorizationInputs ==
    { None, <<"">>, <<"Bearer", "t_user">>, <<"bearer", "t_user">>,
      <<"Basic", "t_user">>, <<"Bearer">>, <<"Bearer", "", "t_user">> }

\* a valid pair of perfil and categoria and one that is not
ParInputs == { <<"diretor", "boletim_ocorrencia">>, <<"dre", "boletim_ocorrencia">> }

\* POST /anexos/ with every check of the create path passing or failing
CheckedCreateRequest ==
    \E header \in AuthorizationInputs, ans \in ExternalAnswers, par \in ParInputs,
       arq \in Uploads, put \in Faults :
        Create(par[1], par[2], "g1", arq,
               [ext |-> ExternalCheck(header, ans).ext, F |-> NoFaults, put |-> put])

NextCreate == CheckedCreateRequest \/ DestroyRequest

SpecCreate == Init /\ [][NextCreate]_vars

(***************************************************************************)
(* Deleting attachments                                                    *)
(***************************************************************************)
DestroyCreateRequest ==
    \E uuid \in Groups :
        Create("diretor", "boletim_ocorrencia", uuid, SmallPdf, QuietEnv)

NextDestroy == DestroyCreateRequest \/ DestroyRequest

SpecDestroy == Init /\ [][NextDestroy]_vars

(***************************************************************************)
(* Requests handled by several workers at a time                           *)
(***************************************************************************)
Workers == {"w1", "w2"}

\* the requests in progress without the one of the worker w
Done(w) == [x \in DOMAIN reqs \ {w} |-> reqs[x]]

\* the requests in progress with the one of the worker w at r
Doing(w, r) == [x \in DOMAIN reqs \cup {w} |-> IF x = w THEN r ELSE reqs[x]]

InProgress(op) == {w \in DOMAIN reqs : reqs[w].op = op}

\* validate without the quota check
CreateValidate_wrong(w, uuid, arq) ==
    /\ w \notin DOMAIN reqs
    /\ Len(anexos) + Cardinality(InProgress("create")) < MaxAnexos
    /\ Cardinality(DOMAIN bucket) + Cardinality(InProgress("create")) < MaxStored
    /\ reqs' = Doing(w, [op |-> "create", uuid |-> uuid, arq |-> arq,
                         lido |-> get_tamanho_total_intercorrencia(anexos, uuid)])
    /\ UNCHANGED <<anexos, bucket, resp>>
    /\ UNCHANGED authVars

\* POST /anexos/, first half: serializer.is_valid(raise_exception=True) of a
\* request without a token.  The quota check reads the total of the group
\* (lido); a request that passes goes on to perform_create.
CreateValidate(w, uuid, arq) ==
    LET v == is_valid(anexos, None, "diretor", "boletim_ocorrencia", uuid, arq,
                      "no_token")
        lido == get_tamanho_total_intercorrencia(anexos, uuid)
    IN  /\ w \notin DOMAIN reqs
        /\ Len(anexos) + Cardinality(InProgress("create")) < MaxAnexos
        /\ Cardinality(DOMAIN bucket) + Cardinality(InProgress("create")) < MaxStored
        /\ IF v # "ok"
           THEN /\ resp' = [op |-> "create", status |-> 400, motivo |-> v,
                            uuid |-> uuid, size |-> arq.size, lido |-> lido]
                /\ UNCHANGED reqs
           ELSE /\ reqs' = Doing(w, [op |-> "create", uuid |-> uuid, arq |-> arq,
                                     lido |-> lido])
                /\ UNCHANGED resp
        /\ UNCHANGED <<anexos, bucket>>
        /\ UNCHANGED authVars

\* POST /anexos/, second half: perform_create, serializer.save(): the file is
\* written and the row inserted, whatever the table holds by now
CreateSave(w) ==
    LET r == reqs[w]
        st == StorageSave(bucket, os_path_join(UploadTo, r.arq.name), r.arq.size,
                          NoFaults, "none")
    IN  /\ w \in InProgress("create")
        /\ bucket' = st.bucket
        /\ anexos' = Append(anexos,
               [intercorrencia_uuid |-> r.uuid,
                perfil |-> "diretor",
                categoria |-> "boletim_ocorrencia",
                arquivo |-> st.key,
                arquivo_size |-> r.arq.size,
                tamanho_bytes |-> AnexoSaveTamanho(r.arq.size, r.arq.size),
                ativo |-> TRUE])
        /\ resp' = [op |-> "create", status |-> 201, motivo |-> "ok",
                    uuid |-> r.uuid, size |-> r.arq.size, lido |-> r.lido]
        /\ reqs' = Done(w)
        /\ UNCHANGED authVars

NextQuotaRace ==
    \/ \E w \in Workers, uuid \in Groups, arq \in Uploads : CreateValidate(w, uuid, arq)
    \/ \E w \in Workers : CreateSave(w)

SpecQuotaRace == Init /\ [][NextQuotaRace]_vars

\* _save that refuses to write over an object
SavePut_wrong(w) ==
    LET r == reqs[w]
    IN  /\ w \in InProgress("save")
        /\ IF r.key \in DOMAIN bucket
           THEN /\ resp' = [op |-> "save", name |-> r.name, size |-> r.size,
                            raised |-> "IOError", key |-> None,
                            overwrote |-> FALSE]
                /\ UNCHANGED bucket
           ELSE /\ bucket' = put_object(bucket, r.key, r.size)
                /\ resp' = [op |-> "save", name |-> r.name, size |-> r.size,
                            raised |-> "none", key |-> r.key,
                            overwrote |-> FALSE]
        /\ reqs' = Done(w)
        /\ UNCHANGED anexos
        /\ UNCHANGED authVars

\* Storage.save, first half: get_available_name resolves the key
SaveResolve(w, name, file_size) ==
    LET gan == get_available_name(bucket, name, NoFaults)
    IN  /\ w \notin DOMAIN reqs
        /\ Cardinality(DOMAIN bucket) < MaxObjects
        /\ reqs' = Doing(w, [op |-> "save", name |-> name, size |-> file_size,
                             key |-> gan.name])
        /\ UNCHANGED <<anexos, bucket, resp>>
        /\ UNCHANGED authVars

\* Storage.save, second half: _save calls put_object on the resolved key,
\* whatever the bucket holds by now, and returns the key
SavePut(w) ==
    LET r == reqs[w]
    IN  /\ w \in InProgress("save")
        /\ bucket' = put_object(bucket, r.key, r.size)
        /\ resp' = [op |-> "save", name |-> r.name, size |-> r.size,
                    raised |-> "none", key |-> r.key,
                    overwrote |-> r.key \in DOMAIN bucket]
        /\ reqs' = Done(w)
        /\ UNCHANGED anexos
        /\ UNCHANGED authVars

NextNameRace ==
    \/ \E w \in Workers, name \in CandidateNames, s \in ContentSizes :
          SaveResolve(w, name, s)
    \/ \E w \in Workers : SavePut(w)

SpecNameRace == Init /\ [][NextNameRace]_vars

\* POST /anexos/validar-limite/, up to the return of pode_adicionar_anexo,
\* which reads the total of the group
ValidarLimiteBegin(w, uuid, tamanho) ==
    /\ w \notin DOMAIN reqs
    /\ IF uuid = None \/ ~Truthy(tamanho)
       THEN /\ resp' = [op |-> "validar_limite", status |-> 400]
            /\ UNCHANGED reqs
       ELSE /\ reqs' = Doing(w, [op |-> "validar_limite", uuid |-> uuid,
                                 tamanho_bytes |-> tamanho.v,
                                 pode_adicionar |->
                                     pode_adicionar_anexo(anexos, uuid, tamanho.v)])
            /\ UNCHANGED resp
    /\ UNCHANGED <<anexos, bucket>>
    /\ UNCHANGED authVars

\* POST /anexos/validar-limite/, from get_tamanho_total_intercorrencia, which
\* reads the total of the group again, to the response
ValidarLimiteEnd(w) ==
    LET r == reqs[w]
    IN  /\ w \in InProgress("validar_limite")
        /\ resp' = [op |-> "validar_limite", status |-> 200, uuid |-> r.uuid,
                    tamanho_bytes |-> r.tamanho_bytes,
                    pode_adicionar |-> r.pode_adicionar,
                    tamanho_atual |-> get_tamanho_total_intercorrencia(anexos, r.uuid)]
        /\ reqs' = Done(w)
        /\ UNCHANGED <<anexos, bucket>>
        /\ UNCHANGED authVars

\* validar-limite of one worker while the others create and delete
NextLimiteRace ==
    \/ \E uuid \in Groups \cup {None}, tamanho \in TamanhoInputs :
          ValidarLimiteBegin("w1", uuid, tamanho)
    \/ ValidarLimiteEnd("w1")
    \/ \E uuid \in Groups, arq \in Uploads :
          Create("diretor", "boletim_ocorrencia", uuid, arq, QuietEnv)
    \/ \E i \in Rows : Destroy(i, "ok", FALSE)

SpecLimiteRace == Init /\ [][NextLimiteRace]_vars

(***************************************************************************)
(* Properties of the quota                                                 *)
(***************************************************************************)
RECURSIVE SumOver(_)
SumOver(S) ==
    IF S = {} THEN 0
    ELSE LET i == CHOOSE i \in S : TRUE
         IN  anexos[i].tamanho_bytes + SumOver(S \ {i})

ActiveRows(g) == {i \in 1..Len(anexos) : anexos[i].intercorrencia_uuid = g /\ anexos[i].ativo}

\* bytes of the active attachments of the group g
ActiveBytes(g) == SumOver(ActiveRows(g))

\* C1: after every accepted create, update or delete request the active
\* attachments of each intercorrencia_uuid sum to at most 10*1024*1024 bytes.
C1_QuotaHolds ==
    \A g \in Groups : ActiveBytes(g) <= 10485760

\* C2: pode_adicionar_anexo(group, size) is true exactly when the active
\* bytes of the group plus size are at most 10485760, in the function and in
\* the answer of validar-limite.
C2_PodeAdicionarInclusive ==
    /\ \A g \in Groups : \A t \in {1, 2 * MiB, 2 * MiB + 1, 3 * MiB, 10 * MiB} :
          pode_adicionar_anexo(anexos, g, t) <=> (ActiveBytes(g) + t <= 10485760)
    /\ (resp.op = "validar_limite" /\ resp.status = 200 /\ resp.tamanho_bytes > 0) =>
          (resp.pode_adicionar <=> (ActiveBytes(resp.uuid) + resp.tamanho_bytes <= 10485760))

\* 8 MiB active: 2 MiB brings the total to exactly 10485760 and is accepted
C2_Witness ==
    /\ resp.op = "validar_limite" /\ resp.status = 200
    /\ ActiveBytes(resp.uuid) = 8388608
    /\ resp.tamanho_bytes = 2097152
    /\ resp.pode_adicionar
    /\ ~pode_adicionar_anexo(anexos, resp.uuid, 2097153)
    /\ ~pode_adicionar_anexo(anexos, resp.uuid, 3145728)

\* C3: get_tamanho_total_intercorrencia(group) is the sum of tamanho_bytes
\* over the active rows of the group only, 0 when there is none, and a logical
\* deletion of an active row of size s lowers it by exactly s.
C3_TotalCountsActiveOnly ==
    /\ \A g \in Groups :
          /\ get_tamanho_total_intercorrencia(anexos, g) = ActiveBytes(g)
          /\ (ActiveRows(g) = {} => get_tamanho_total_intercorrencia(anexos, g) = 0)
    /\ (resp.op = "excluir_logicamente" /\ resp.ativo_antes) =>
          get_tamanho_total_intercorrencia(anexos, resp.uuid)
              = resp.tamanho_antes - resp.tamanho_bytes

\* a logical deletion in a group that keeps another active row: the deleted
\* row is still in the table and no longer counts
C3_Witness ==
    /\ resp.op = "excluir_logicamente" /\ resp.ativo_antes
    /\ ActiveRows(resp.uuid) # {}
    /\ \E i \in 1..Len(anexos) :
          anexos[i].intercorrencia_uuid = resp.uuid /\ ~anexos[i].ativo
    /\ get_tamanho_total_intercorrencia(anexos, resp.uuid) < resp.tamanho_antes

\* C4: every active row's tamanho_bytes is the size of the file the row
\* references, so that the total of a group is the sum of the sizes of the
\* files accepted for its active attachments.
C4_TamanhoIsFileSize ==
    \A i \in 1..Len(anexos) :
        anexos[i].ativo => anexos[i].tamanho_bytes = anexos[i].arquivo_size

\* C5: validar-limite never answers that a zero or negative size can be
\* added.
C5_NonPositiveRejected ==
    (resp.op = "validar_limite" /\ resp.status = 200 /\ resp.tamanho_bytes <= 0) =>
        ~resp.pode_adicionar

(***************************************************************************)
(* Properties of the storage adapter                                       *)
(***************************************************************************)
\* directory, base name and extension of each candidate, written out
NameParts(p) ==
    IF p = <<"d", "/", "f", ".", "p">>
    THEN [dir |-> <<"d", "/">>, base |-> <<"f">>, ext |-> <<".", "p">>]
    ELSE IF p = <<"d", "/", "f", "_", "1", ".", "p">>
    THEN [dir |-> <<"d", "/">>, base |-> <<"f", "_", "1">>, ext |-> <<".", "p">>]
    ELSE [dir |-> <<>>, base |-> <<"f">>, ext |-> <<>>]

\* dir/base_k.ext
NthProbe(p, k) ==
    NameParts(p).dir \o NameParts(p).base \o <<"_">> \o IntToStr(k) \o NameParts(p).ext

Answered(out) == out \in {"ok", "NoSuchKey"}

\* C6: get_available_name(p) returns p unchanged when no object occupies p
\* (exists(p) answers false); otherwise, after the loop's own test of p, it
\* probes dir/base_1.ext, dir/base_2.ext, ... in strictly increasing order, no
\* name twice, and returns the first name for which exists answers false;
\* wherever the backend answered the probe, that answer is the occupation of
\* the name in the bucket.
C6_FirstFreeSuffix ==
    (resp.op = "get_available_name" /\ ~resp.raised) =>
        LET L == resp.probes
            n == Len(L)
        IN  /\ L[1].name = resp.name
            /\ resp.ret = L[n].name
            /\ ~L[n].ans
            /\ \A i \in 1..(n - 1) : L[i].ans
            /\ (n > 1 => L[2].name = resp.name)
            /\ \A i \in 3..n : L[i].name = NthProbe(resp.name, i - 2)
            /\ \A i, j \in 2..n : i # j => L[i].name # L[j].name
            /\ \A i \in 1..n : Answered(L[i].out) => (L[i].ans <=> L[i].name \in DOMAIN bucket)
            /\ (resp.name \notin DOMAIN bucket => resp.ret = resp.name /\ n = 1)

\* p and p_1 occupied, p_2 free: p_2 is returned
C6_Witness ==
    /\ resp.op = "get_available_name" /\ ~resp.raised
    /\ resp.name = <<"d", "/", "f", ".", "p">>
    /\ {<<"d", "/", "f", ".", "p">>, <<"d", "/", "f", "_", "1", ".", "p">>} \subseteq DOMAIN bucket
    /\ resp.ret = <<"d", "/", "f", "_", "2", ".", "p">>
    /\ \A i \in 1..Len(resp.probes) : Answered(resp.probes[i].out)

\* C7: a save never writes to a key that holds an object at the moment of
\* the write.
C7_NeverOverwrites ==
    (resp.op = "save" /\ resp.raised = "none") => ~resp.overwrote

\* C8: when delete(key) returns, the key is absent from the bucket.
C8_AbsentAfterDelete ==
    (resp.op = "delete" /\ ~resp.raised) => resp.name \notin DOMAIN bucket

\* C9: exists(key) returns false only when the backend reports the object as
\* not found; any other backend error surfaces to the caller.
C9_ExistsMasksNothing ==
    resp.op = "exists" =>
        /\ ((~resp.raised /\ ~resp.ret) => resp.out = "NoSuchKey")
        /\ (~Answered(resp.out) => resp.raised)

\* C10: exists(k) is false before save, true immediately after a successful
\* save and false immediately after delete(k); size(k) gives the stored byte
\* length when k is present and 0 when it is absent.
C10_RoundTrip ==
    /\ (resp.op = "exists" /\ ~resp.raised) =>
          /\ (resp.after = "save" => resp.ret)
          /\ (resp.after = "delete" => ~resp.ret)
          /\ (resp.name \notin DOMAIN bucket => ~resp.ret)
    /\ (resp.op = "size" /\ ~resp.raised) =>
          /\ (resp.after = "save" => resp.ret = bucket[resp.name])
          /\ (resp.after = "delete" => resp.ret = 0)
          /\ (resp.name \notin DOMAIN bucket => resp.ret = 0)

\* C11: a save whose put_object fails on a backend error raises the write
\* error IOError, returns no key and stores nothing, so that the caller
\* persists no row for it.
C11_WriteFailureIsIOError ==
    (resp.op = "save" /\ resp.put \notin {"none", "notcalled"}) =>
        /\ resp.raised = "IOError"
        /\ resp.key = None

(***************************************************************************)
(* Properties of the category policy                                       *)
(***************************************************************************)
\* the table of the policy, written out role by role
TabelaEscola ==
    { "boletim_ocorrencia", "registro_ocorrencia_interno",
      "protocolo_conselho_tutelar", "instrucao_normativa_20_2020" }

TabelaDre ==
    { "relatorio_naapa", "relatorio_cefai", "relatorio_sts", "relatorio_cpca",
      "oficio_gcm" }

TabelaGipe ==
    { "boletim_ocorrencia", "registro_intercorrencia",
      "protocolo_conselho_tutelar", "instrucao_normativa_20_2020",
      "relatorio_naapa", "relatorio_supervisao_escolar", "relatorio_cefai",
      "relatorio_sts", "relatorio_cpca", "oficio_gcm" }

Tabela(perfil) ==
    CASE perfil = "diretor" -> TabelaEscola
      [] perfil = "assistente" -> TabelaEscola
      [] perfil = "dre" -> TabelaDre
      [] perfil = "gipe" -> TabelaGipe
      [] OTHER -> {}

TodasCategorias == TabelaEscola \cup TabelaDre \cup TabelaGipe \cup {"outra"}

\* C12: validation of (perfil, categoria) succeeds exactly when categoria is
\* in the table of perfil; assistente has the set of diretor; a perfil that is
\* not one of the four has the empty set, so that every categoria is rejected
\* for it; and a create request that is otherwise valid is accepted exactly
\* when its pair is in the table.
C12_CategoriaPolicy ==
    /\ get_categorias_validas_por_perfil("assistente")
          = get_categorias_validas_por_perfil("diretor")
    /\ get_categorias_validas_por_perfil("outro") = {}
    /\ \A p \in PerfilInputs : \A c \in TodasCategorias :
          /\ get_categorias_validas_por_perfil(p) = Tabela(p)
          /\ (validate_categoria(p, None, c) = "ok") <=> (c \in Tabela(p))
    /\ (resp.op = "create" /\ resp.perfil # None /\ resp.categoria # None) =>
          ((resp.status = 201) <=> (resp.categoria \in Tabela(resp.perfil)))

\* an assistente holds a category of the school roles, and is refused one of dre
C12_Witness ==
    /\ resp.op = "create" /\ resp.status = 400 /\ resp.motivo = "categoria"
    /\ resp.perfil = "assistente" /\ resp.categoria = "relatorio_naapa"
    /\ \E i \in 1..Len(anexos) :
          /\ anexos[i].perfil = "assistente"
          /\ anexos[i].categoria = "registro_ocorrencia_interno"

\* C13: every persisted attachment has a categoria that
\* get_categorias_validas_por_perfil gives for its perfil.
C13_CategoriaValidForPerfil ==
    \A i \in 1..Len(anexos) :
        anexos[i].categoria \in get_categorias_validas_por_perfil(anexos[i].perfil)

\* C14: the set of gipe has 10 entries and contains every category that the
\* API lists for any perfil.
C14_GipeHasAll ==
    /\ Cardinality(get_categorias_validas_por_perfil("gipe")) = 10
    /\ (resp.op = "categorias_disponiveis" /\ resp.status = 200) =>
          resp.categorias \subseteq get_categorias_validas_por_perfil("gipe")

(***************************************************************************)
(* Properties of the authentication                                        *)
(***************************************************************************)
\* a header that is absent, or not of the Bearer scheme, or not of two parts
NoCredential(h) ==
    \/ h = <<>>
    \/ Len(h) # 2
    \/ h[1] \notin {"Bearer", "bearer", "BEARER"}

\* C15: a request whose Authorization header is absent, of another scheme
\* than Bearer, or not of exactly two parts is answered None (no credential):
\* nothing is raised, neither remote endpoint is contacted and the cache is
\* neither read nor written.
C15_NoCredential ==
    [][ (now' = now /\ resp'.op = "authenticate" /\ NoCredential(resp'.header)) =>
            /\ resp'.result = "None"
            /\ resp'.verify = "notcalled"
            /\ resp'.me = "notcalled"
            /\ ~resp'.cache_used
            /\ cache' = cache ]_vars

\* a Bearer header of three parts while the cache holds claims
C15_Witness ==
    /\ resp.op = "authenticate"
    /\ resp.header = <<"Bearer", "t_user", "x">>
    /\ resp.result = "None"
    /\ <<"jwtv", "t_user">> \in DOMAIN cache

\* the request before failed to verify the token
AfterFailure(token) ==
    /\ resp.op = "authenticate"
    /\ resp.token = token
    /\ resp.motivo \in {"contato", "invalido", "malformado"}

\* the token is one that jwt.decode refuses at the time t
DecodeFails(token, t) ==
    \/ token = "t_bad"
    \/ (token = "t_user" /\ t >= 3600)
    \/ (token = "t_uid" /\ t >= 25)

\* C16: when the remote verification fails by transport, answers another
\* status than 200, or the local decode fails, the request ends with
\* AuthenticationFailed, no user is produced, the identity endpoint is not
\* called and the cache is left as it was, without claims for the token; the
\* next request with the same token contacts the remote service again.
C16_VerificationFailureIsFatal ==
    [][ (now' = now /\ resp'.op = "authenticate" /\ resp'.token # None) =>
            /\ ( \/ resp'.verify \in {"401", "transport"}
                 \/ (resp'.verify = "200" /\ DecodeFails(resp'.token, now)) ) =>
                   /\ resp'.result = "AuthenticationFailed"
                   /\ resp'.user = NoUser
                   /\ resp'.me = "notcalled"
                   /\ cache' = cache
                   /\ <<"jwtv", resp'.token>> \notin DOMAIN cache'
            /\ AfterFailure(resp'.token) => resp'.verify # "notcalled" ]_vars

\* the remote service refuses a token whose claims it had verified before
\* and that have expired from the cache since
C16_Witness ==
    /\ resp.op = "authenticate" /\ resp.token = "t_user"
    /\ resp.verify = "401"
    /\ resp.result = "AuthenticationFailed"
    /\ now >= 60
    /\ <<"jwtv", "t_user">> \notin DOMAIN cache

\* max(1, min(60, d)) case by case
Clamp(d) == IF d >= 60 THEN 60 ELSE IF d <= 1 THEN 1 ELSE d

\* C17: claims verified remotely are stored for max(1, min(60, exp - now))
\* seconds (60 when the token has no exp, 60 for exp = now + 3600), and claims
\* are never served from the cache more than 60 seconds after they were
\* stored.
C17_ClaimsTtlCapped ==
    [][ (now' = now /\ resp'.op = "authenticate" /\ resp'.token # None) =>
            /\ resp'.age <= 60
            /\ (resp'.verify = "200" /\ resp'.motivo # "malformado") =>
                  LET e == cache'[<<"jwtv", resp'.token>>]
                      exp == TokenPayload(resp'.token).exp
                  IN  /\ e.created = now
                      /\ e.expires - now = (IF exp = -1 THEN 60 ELSE Clamp(exp - now))
                      /\ resp'.ttl = e.expires - now
                      /\ (exp = now + 3600 => resp'.ttl = 60) ]_vars

\* claims of a token with exp = 3600 served 40 seconds after their
\* verification
C17_Witness ==
    /\ resp.op = "authenticate" /\ resp.token = "t_user"
    /\ resp.result = "user"
    /\ resp.verify = "notcalled"
    /\ resp.age = 40

\* C18: when the identity endpoint answers another status than 200 or the
\* call fails by transport, authenticate still gives a user, whose
\* unidade_codigo_eol and dre_codigo_eol are empty, and nothing is cached for
\* the identity.
C18_EnrichmentBestEffort ==
    (resp.op = "authenticate" /\ resp.me \in {"500", "transport"}) =>
        /\ resp.result = "user"
        /\ resp.user.username # None
        /\ resp.user.unidade_codigo_eol = None
        /\ resp.user.dre_codigo_eol = None
        /\ <<"user_info", resp.user.username, resp.token>> \notin DOMAIN cache

\* the identity endpoint is unreachable: the user has the claims' fields only
C18_Witness ==
    /\ resp.op = "authenticate" /\ resp.me = "transport"
    /\ resp.result = "user"
    /\ resp.user.username = "7"
    /\ resp.user.cargo_codigo = "3360"
    /\ resp.user.unidade_codigo_eol = None

\* the first of username, sub, user_id that is neither absent nor empty
FirstSubject(username, sub, user_id) ==
    IF username \notin {None, ""} THEN username
    ELSE IF sub \notin {None, ""} THEN sub
    ELSE IF user_id \notin {None, ""} THEN user_id
    ELSE None

ClaimValues == {None, "", "a", "b"}

\* C19: the subject of the user is the first non-empty of the claims
\* username, sub, user_id, in that order; when there is none the request ends
\* with AuthenticationFailed and the identity endpoint is not called.
C19_SubjectOrder ==
    /\ \A u, s, i \in ClaimValues :
          LET p == [NoClaims EXCEPT !.username = u, !.sub = s, !.user_id = i]
          IN  IF FirstSubject(u, s, i) = None THEN Falsy(Username(p))
              ELSE Username(p) = FirstSubject(u, s, i)
    /\ (resp.op = "authenticate" /\ resp.motivo \in {"ok", "sem_subject"}
            /\ resp.token # None) =>
          LET p == TokenPayload(resp.token)
              expected == FirstSubject(p.username, p.sub, p.user_id)
          IN  IF expected = None
              THEN /\ resp.result = "AuthenticationFailed"
                   /\ resp.motivo = "sem_subject"
                   /\ resp.me = "notcalled"
              ELSE /\ resp.result = "user"
                   /\ resp.user.username = expected

\* an empty username and no sub: the subject is the user_id
C19_Witness ==
    /\ resp.op = "authenticate" /\ resp.token = "t_uid"
    /\ resp.result = "user"
    /\ resp.user.username = "7"

\* the unit codes and the regional-office codes an identity response carries
UnitCodes(ud) ==
    { ud.unidade_codigo_eol, ud.unidade.codigo_eol, ud.unidade.codigo,
      ud.escola.codigo_eol, ud.escola.codigo } \ {None, ""}

DreCodes(ud) ==
    { ud.dre_codigo_eol, ud.dre.codigo_eol, ud.dre.codigo,
      ud.unidade.dre.codigo_eol, ud.unidade.dre.codigo,
      ud.escola.dre.codigo_eol, ud.escola.dre.codigo } \ {None, ""}

\* C20: whenever the identity response carries a unit code (top-level
\* unidade_codigo_eol, or codigo_eol/codigo under unidade or escola) the
\* normalized unidade_codigo_eol is a code it carries; whenever it carries a
\* regional-office code (top-level, under dre, or under the unit's dre) the
\* normalized dre_codigo_eol is one; name falls back to first_name and
\* cargo_codigo to perfil_codigo.
C20_EveryShapeAccepted ==
    resp.op = "parse_user_data" =>
        LET ud == resp.user_data
            info == resp.info
        IN  /\ UnitCodes(ud) # {} => info.unidade_codigo_eol \in UnitCodes(ud)
            /\ DreCodes(ud) # {} => info.dre_codigo_eol \in DreCodes(ud)
            /\ info.name = (IF ud.name \notin {None, ""} THEN ud.name ELSE ud.first_name)
            /\ info.cargo_codigo =
                  (IF ud.cargo_codigo \notin {None, ""} THEN ud.cargo_codigo
                   ELSE ud.perfil_codigo)

BearerToken(h) ==
    /\ h # None
    /\ Len(h) >= 2
    /\ h[1] = "Bearer"
    /\ h[2] # ""

ArquivoAceito(name, file_size) ==
    /\ file_size <= 10485760
    /\ name \in { <<"f", ".", "p", "d", "f">>, <<"f", ".", "P", "D", "F">> }

\* C25: on the create path put_object is called, an object is written and a
\* row is persisted only after the request's file size and extension check,
\* its category-for-profile validation, the quota check of its group and
\* (when it has a token) the external check have all passed; a request that
\* any of them rejects is answered 400, calls no put_object and changes
\* neither the bucket nor the table.
C25_ChecksBeforeWrite ==
    [][ (resp'.op = "create" /\ resp'.perfil # None /\ resp'.categoria # None) =>
          LET passed ==
                  /\ ArquivoAceito(resp'.name, resp'.size)
                  /\ resp'.categoria \in Tabela(resp'.perfil)
                  /\ ActiveBytes(resp'.uuid) + resp'.size <= 10485760
                  /\ resp'.ext \in {"no_token", "ok"}
          IN  /\ (resp'.put # "notcalled" \/ bucket' # bucket \/ anexos' # anexos)
                    => passed
              /\ ~passed =>
                    /\ resp'.status = 400
                    /\ resp'.put = "notcalled"
                    /\ bucket' = bucket
                    /\ anexos' = anexos
              /\ passed => resp'.put # "notcalled" ]_vars

\* a request over the quota of its group, refused with nothing written
C25_Witness ==
    /\ resp.op = "create" /\ resp.status = 400 /\ resp.motivo = "limite"
    /\ resp.put = "notcalled"
    /\ Len(anexos) = 1
    /\ Cardinality(DOMAIN bucket) = 1

(***************************************************************************)
(* Properties of concurrent requests                                       *)
(***************************************************************************)
\* C23: the quota is checked and then acted upon, with nothing that holds
\* the two together: every create request past its check, and every one that
\* committed, had read a total of its group that admits its file, and yet two
\* requests of one group that both read the total before either committed
\* leave the group with more than 10485760 active bytes.
C23_QuotaCheckThenAct ==
    /\ \A w \in InProgress("create") :
          reqs[w].lido + reqs[w].arq.size <= 10485760
    /\ (resp.op = "create" /\ resp.status = 201) =>
          /\ resp.lido + resp.size <= 10485760
          /\ \E i \in Rows : /\ anexos[i].intercorrencia_uuid = resp.uuid
                             /\ anexos[i].tamanho_bytes = resp.size
    /\ (resp.op = "create" /\ resp.status = 400 /\ resp.motivo = "limite") =>
          resp.lido + resp.size > 10485760

\* both requests read an empty group, both committed 8 MiB
C23_Witness ==
    /\ resp.op = "create" /\ resp.status = 201
    /\ resp.lido = 0
    /\ Len(anexos) = 2
    /\ anexos[1].intercorrencia_uuid = anexos[2].intercorrencia_uuid
    /\ ActiveBytes(resp.uuid) > 10485760
    /\ reqs = << >>

\* C24: the name is resolved and then written, with nothing that holds the
\* two together: two saves in progress may hold the same key, each having
\* seen it free, and each then calls put_object on it; the adapter raises
\* nothing for the second write, which returns the key like the first and
\* leaves its own content under it.
C24_NameRace ==
    [][ /\ \A w \in Workers :
              (w \notin DOMAIN reqs /\ w \in DOMAIN reqs') =>
                  /\ reqs'[w].key \notin DOMAIN bucket
                  /\ reqs'[w].key \notin DOMAIN bucket'
        /\ (\E w \in DOMAIN reqs : w \notin DOMAIN reqs') =>
              /\ resp'.op = "save"
              /\ resp'.raised = "none"
              /\ resp'.key \in DOMAIN bucket'
              /\ bucket'[resp'.key] = resp'.size
              /\ resp'.overwrote <=> resp'.key \in DOMAIN bucket ]_vars

\* the second of two saves of one name wrote over the content of the first
C24_Witness ==
    /\ resp.op = "save" /\ resp.raised = "none"
    /\ resp.overwrote
    /\ resp.size = 7
    /\ resp.key = resp.name
    /\ Cardinality(DOMAIN bucket) = 1
    /\ reqs = << >>

AuthStep == now' = now /\ resp'.op = "authenticate" /\ resp'.token # None

\* the entry of the key is in the cache and has not expired
Unexpired(key) == key \in DOMAIN cache /\ cache[key].expires > now

\* C26: a lookup that finds an unexpired entry makes no request.  When the
\* claims of the token of a request are in the cache, the request does not
\* contact the verification endpoint and goes on with the cached claims; when
\* the request looks up the identity of (username, token) and it is in the
\* cache, the identity endpoint is not contacted and the user has the cached
\* unit and DRE.  Neither entry is written again.
C26_CacheHitAvoidsRemoteCall ==
    [][ AuthStep =>
          LET token == resp'.token
              kv == <<"jwtv", token>>
              ku == <<"user_info", resp'.user.username, token>>
          IN  /\ Unexpired(kv) =>
                    /\ resp'.verify = "notcalled" /\ resp'.posts = 0
                    /\ resp'.motivo \in {"ok", "sem_subject"}
                    /\ resp'.result = "user" =>
                          resp'.user.username = Username(cache[kv].value)
                    /\ resp'.motivo = "sem_subject" =>
                          Falsy(Username(cache[kv].value))
                    /\ cache'[kv] = cache[kv]
              /\ (resp'.result = "user" /\ resp'.me # "unset" /\ Unexpired(ku)) =>
                    /\ resp'.me = "notcalled" /\ resp'.gets = 0
                    /\ resp'.user.unidade_codigo_eol
                          = cache[ku].value.unidade_codigo_eol
                    /\ resp'.user.dre_codigo_eol = cache[ku].value.dre_codigo_eol
                    /\ cache'[ku] = cache[ku] ]_vars

\* a request served from both caches, 20 seconds after they were filled
C26_Witness ==
    /\ resp.op = "authenticate" /\ resp.token = "t_user"
    /\ resp.result = "user"
    /\ resp.verify = "notcalled" /\ resp.me = "notcalled"
    /\ resp.posts = 0 /\ resp.gets = 0
    /\ resp.age = 20
    /\ resp.user.unidade_codigo_eol = "U0"
    /\ <<"user_info", "alice", "t_user">> \in DOMAIN cache
    /\ cache[<<"user_info", "alice", "t_user">>].created = now - 20

\* the keys of the identities in a cache
IdentityKeys(c) == {k \in DOMAIN c : k[1] = "user_info"}

\* C27: an identity stays in the cache for 30 seconds from the request that
\* stored it, whatever the exp of the token; a request stores one only when
\* the identity endpoint answered 200 to it; and a request that follows one
\* whose enrichment failed, with the same token, and gets as far as the
\* enrichment, contacts the identity endpoint again.
C27_IdentityTtl ==
    [][ /\ \A k \in IdentityKeys(cache') :
              cache'[k].expires - cache'[k].created = 30
        /\ AuthStep =>
              /\ (\E k \in IdentityKeys(cache') :
                      k \notin DOMAIN cache \/ cache'[k] # cache[k]) =>
                    /\ resp'.me = "200"
                    /\ IdentityKeys(cache')
                          \subseteq IdentityKeys(cache)
                              \cup {<<"user_info", resp'.user.username, resp'.token>>}
              /\ resp'.me \in {"500", "transport"} =>
                    IdentityKeys(cache') = IdentityKeys(cache)
              /\ ( /\ resp.op = "authenticate"
                   /\ resp.me \in {"500", "transport"}
                   /\ resp'.token = resp.token
                   /\ resp'.result = "user"
                   /\ resp'.me # "unset" ) =>
                    /\ resp'.me # "notcalled"
                    /\ resp'.gets = 1 ]_vars

\* the identity of a token whose exp is 25 is stored at 20, until 50, by a
\* request that follows one that stored none
C27_Witness ==
    /\ resp.op = "authenticate" /\ resp.token = "t_uid"
    /\ resp.result = "user" /\ resp.me = "200" /\ resp.gets = 1
    /\ resp.verify = "notcalled"
    /\ now = 20
    /\ TokenPayload("t_uid").exp = 25
    /\ <<"user_info", "7", "t_uid">> \in DOMAIN cache
    /\ cache[<<"user_info", "7", "t_uid">>].created = 20
    /\ cache[<<"user_info", "7", "t_uid">>].expires = 50

\* C28: a call of authenticate sends at most one request to the verification
\* endpoint and at most one to the identity endpoint, whatever they answer:
\* one when the endpoint was contacted, none otherwise.
C28_NoRetries ==
    resp.op = "authenticate" =>
        /\ resp.posts <= 1 /\ resp.gets <= 1
        /\ resp.posts = (IF resp.verify = "notcalled" THEN 0 ELSE 1)
        /\ resp.gets = (IF resp.me \in {"notcalled", "unset"} THEN 0 ELSE 1)

\* the verification endpoint could not be reached, and was asked once
C28_Witness ==
    /\ resp.op = "authenticate" /\ resp.token = "t_user"
    /\ resp.verify = "transport" /\ resp.motivo = "contato"
    /\ resp.posts = 1 /\ resp.gets = 0
    /\ now = 20

\* C29: the enrichment comes after the verification and the subject.  A
\* request whose token fails the verification, or whose claims name no
\* subject, contacts no identity endpoint, yields no user and leaves the
\* cached identities as they are, also when the identity of the token is
\* still in the cache; and a request that contacts the identity endpoint or
\* yields a user has a verified token, by the endpoint or by cached claims,
\* and a subject.
C29_EnrichmentAfterVerification ==
    [][ AuthStep =>
          /\ resp'.motivo \in {"contato", "invalido", "malformado", "sem_subject"} =>
                /\ resp'.result = "AuthenticationFailed"
                /\ resp'.user = NoUser
                /\ resp'.me = "notcalled" /\ resp'.gets = 0
                /\ IdentityKeys(cache') = IdentityKeys(cache)
                /\ \A k \in IdentityKeys(cache) : cache'[k] = cache[k]
          /\ resp'.verify \in {"401", "transport"} =>
                resp'.result = "AuthenticationFailed"
          /\ (resp'.gets > 0 \/ resp'.result = "user") =>
                /\ resp'.motivo = "ok"
                /\ \/ resp'.verify = "200"
                   \/ resp'.verify = "notcalled" /\ Unexpired(<<"jwtv", resp'.token>>)
                /\ ~Falsy(resp'.user.username) ]_vars

\* the cached claims of the token have expired, its cached identity has not,
\* and the verification endpoint refuses the token
C29_Witness ==
    /\ resp.op = "authenticate" /\ resp.token = "t_user"
    /\ resp.verify = "401" /\ resp.motivo = "invalido"
    /\ resp.result = "AuthenticationFailed" /\ resp.user = NoUser
    /\ <<"jwtv", "t_user">> \notin DOMAIN cache
    /\ <<"user_info", "alice", "t_user">> \in DOMAIN cache
    /\ cache[<<"user_info", "alice", "t_user">>].expires > now

====
